---- MODULE Spec2Model ----
(***************************************************************************)
(* Model of the Dynatrace extensions add-on:                               *)
(*   - JMXActionProvider (src/src/codeActions/jmx.ts): the code action     *)
(*     that turns cached scrape data into a YAML fragment;                 *)
(*   - JMXCodeLensProvider (src/src/codeLens/jmxScraper.ts): the scrape    *)
(*     workflow that collects a target and fills the session cache;        *)
(*   - buildExtension (src/src/commandPalette/activateExtension.ts): the   *)
(*     build, validation and upload workflow.                              *)
(*                                                                         *)
(* Text is modelled character by character: a string is a sequence of      *)
(* one-character strings.  A multi-line text is a sequence of lines, and a *)
(* line is kept in three parts, its text being indent blanks, then lit,    *)
(* then arg: every line the code appends to yamlString is a literal        *)
(* followed by at most one computed string and "\n".                       *)
(***************************************************************************)
EXTENDS Integers, Sequences, FiniteSets, TLC

VARIABLES
    jmxData,       \* CachedData.jmxData: the session cache read by the code action
    document,      \* the open manifest: a sequence of lines
    range,         \* range.start.line of the last provideCodeActions call
    outcome,       \* "idle" | "returned" | "threw": how that call ended
    codeActions,   \* the list of code actions it returned
    inserted,      \* how many offered insertions the user has applied
    pc,            \* position of the scrape command handler
    commands,      \* how many scrape commands were started
    changeConfig,  \* argument of the running scrape command
    method,        \* JMXCodeLensProvider.method
    jmxUrl,        \* JMXCodeLensProvider.jmxUrl
    jmxAuth,       \* JMXCodeLensProvider.jmxAuth
    jmxUsername,   \* JMXCodeLensProvider.jmxUsername
    jmxPassword,   \* JMXCodeLensProvider.jmxPassword
    lastScrape,    \* JMXCodeLensProvider.lastScrape: "N/A" or a scrape number
    response,      \* res.data of the last completed request
    details,       \* result of the last collectJMXScrapingDetails
    scrapeSuccess, \* result of the last JMXscrape
    cacheTarget,   \* ghost: the stored target when the cached data was obtained
    fired,         \* ghost: number of onDidChangeCodeLenses events sent
    bpc,               \* position of the running buildExtension
    fastMode,          \* buildExtension was started by fast mode
    dt,                \* a Dynatrace API client is connected
    python,            \* the manifest has a python: datasource
    cancelRequested,   \* cancelToken.isCancellationRequested
    extension,         \* the manifest content read when the build started
    currentVersion,    \* the version parsed from that content, normalized
    updatedVersion,    \* the result of preBuildTasks
    zipFilename,       \* the version in the package file name
    valid,             \* the result of validateExtension
    existingVersions,  \* the version list uploadAndActivate got
    uploads,           \* how many uploads uploadAndActivate has sent
    statusBar,         \* the fast mode status bar: build passing or failing
    manifestFile,      \* extension.yaml on disk
    manifestWrites,    \* how often the build wrote extension.yaml
    extensionDocument, \* the manifest as open in the editor
    storage,           \* the package zip exists in workspace storage
    dist,              \* the package zips in the dist folder
    tenant,            \* the versions of the extension on the tenant, oldest first
    deleting,          \* versions whose deletion the tenant has accepted
    remoteCalls,       \* the calls sent to the tenant, with their results
    spc,           \* openScreen: where the command stands
    environment,   \* what environments.getCurrentEnvironment() resolves to
    screenArgs,    \* entityType and screenType of the running openScreen
    opened,        \* the pages opened with vscode.env.openExternal
    entityQueries, \* the entitiesV2.list calls sent to the tenant
    messages,      \* the messages shown with showMessage
    apc,           \* createAlert: where the command stands
    alertsRun,     \* how many createAlert commands were started
    manifestText,  \* the text of extension.yaml on disk, as characters
    extensionText, \* the text createAlert read when it started
    fileName,      \* the file name of the alert being created
    alertFiles,    \* the files written to the alerts folder
    alertResult,   \* how the last createAlert ended
    overwritten    \* ghost: the text on disk just before createAlert wrote

vars ==
    << jmxData, document, range, outcome, codeActions, inserted, pc, commands,
       changeConfig, method, jmxUrl, jmxAuth, jmxUsername, jmxPassword,
       lastScrape, response, details, scrapeSuccess, cacheTarget, fired,
       bpc, fastMode, dt, python, cancelRequested, extension, currentVersion,
       updatedVersion, zipFilename, valid, existingVersions, uploads, statusBar,
       manifestFile, manifestWrites, extensionDocument, storage, dist, tenant,
       deleting, remoteCalls,
       spc, environment, screenArgs, opened, entityQueries, messages,
       apc, alertsRun, manifestText, extensionText, fileName, alertFiles,
       alertResult, overwritten >>

actionVars ==
    << document, range, outcome, codeActions, inserted >>

scrapeVars ==
    << pc, commands, changeConfig, method, jmxUrl, jmxAuth, jmxUsername, jmxPassword,
       lastScrape, response, details, scrapeSuccess, cacheTarget, fired >>

buildVars ==
    << bpc, fastMode, dt, python, cancelRequested, extension, currentVersion,
       updatedVersion, zipFilename, valid, existingVersions, uploads, statusBar,
       manifestFile, manifestWrites, extensionDocument, storage, dist, tenant,
       deleting, remoteCalls >>

screenVars ==
    << spc, environment, screenArgs, opened, entityQueries, messages >>

alertVars ==
    << apc, alertsRun, manifestText, extensionText, fileName, alertFiles,
       alertResult, overwritten >>

(***************************************************************************)
(* Strings                                                                 *)
(***************************************************************************)

\* JavaScript's undefined, and a value that is not a string (a number).
Undefined ==
    << "<undefined>" >>

NonString ==
    << "<number>" >>

IsString(v) ==
    v # Undefined /\ v # NonString

UpperCase ==
    << "A", "B", "C", "D", "E", "F", "G", "H", "I", "J", "K", "L", "M",
       "N", "O", "P", "Q", "R", "S", "T", "U", "V", "W", "X", "Y", "Z" >>

LowerCase ==
    << "a", "b", "c", "d", "e", "f", "g", "h", "i", "j", "k", "l", "m",
       "n", "o", "p", "q", "r", "s", "t", "u", "v", "w", "x", "y", "z" >>

Digits ==
    << "0", "1", "2", "3", "4", "5", "6", "7", "8", "9" >>

Range(s) ==
    { s[i] : i \in 1..Len(s) }

IsUpper(c) ==
    c \in Range(UpperCase)

IsLower(c) ==
    c \in Range(LowerCase)

IsDigit(c) ==
    c \in Range(Digits)

\* String.prototype.toLowerCase on one character
LowerChar(c) ==
    IF IsUpper(c)
    THEN LowerCase[CHOOSE i \in 1..Len(UpperCase) : UpperCase[i] = c]
    ELSE c

toLowerCase(s) ==
    [i \in 1..Len(s) |-> LowerChar(s[i])]

\* String.prototype.slice(0, end): a negative end counts from the end of the string
slice0(s, end) ==
    LET e == IF end < 0
             THEN (IF Len(s) + end < 0 THEN 0 ELSE Len(s) + end)
             ELSE (IF end > Len(s) THEN Len(s) ELSE end)
    IN  SubSeq(s, 1, e)

StartsWith(s, p) ==
    Len(s) >= Len(p) /\ SubSeq(s, 1, Len(p)) = p

endsWith(s, p) ==
    Len(s) >= Len(p) /\ SubSeq(s, Len(s) - Len(p) + 1, Len(s)) = p

\* String.prototype.includes
includes(s, p) ==
    \E i \in 1..(Len(s) - Len(p) + 1) : SubSeq(s, i, i + Len(p) - 1) = p

\* Number.prototype.toString for a natural number
RECURSIVE toString(_)
toString(n) ==
    IF n < 10 THEN << Digits[n + 1] >>
    ELSE toString(n \div 10) \o << Digits[(n % 10) + 1] >>

\* k copies of the string s
Rep(s, k) ==
    [i \in 1..(k * Len(s)) |-> s[((i - 1) % Len(s)) + 1]]

\* a line made of a literal and a computed string
Piece(lit, arg) ==
    [indent |-> 0, lit |-> lit, arg |-> arg]

\* the characters of a line
Text(line) ==
    Rep(<< " " >>, line.indent) \o line.lit \o line.arg

(***************************************************************************)
(* Literals of createQueryInsertions                                       *)
(***************************************************************************)
S_groups ==
    << " ", " ", "g", "r", "o", "u", "p", "s", ":" >>
S_group ==
    << " ", " ", "-", " ", "g", "r", "o", "u", "p", ":", " ", "g", "r", "o", "u", "p", "_" >>
S_subgroups ==
    << " ", " ", " ", " ", "s", "u", "b", "g", "r", "o", "u", "p", "s", ":", " " >>
S_subgroup ==
    << " ", " ", " ", " ", " ", " ", " ", "-", " ", "s", "u", "b", "g", "r", "o", "u", "p", ":", " " >>
S_query ==
    << " ", " ", " ", " ", " ", " ", " ", " ", " ", "q", "u", "e", "r", "y", ":", " " >>
S_dimensions ==
    << " ", " ", " ", " ", " ", " ", " ", " ", " ", "d", "i", "m", "e", "n", "s", "i", "o", "n", "s", ":", " " >>
S_dimensionsRoll ==
    << " ", " ", " ", " ", " ", " ", " ", " ", " ", "d", "i", "m", "e", "n", "s", "i", "o", "n", "s", " ", ":", " " >>
S_key ==
    << " ", " ", " ", " ", " ", " ", " ", " ", " ", " ", "-", " ", "k", "e", "y", ":", " " >>
S_valueProperty ==
    << " ", " ", " ", " ", " ", " ", " ", " ", " ", " ", " ", " ", "v", "a", "l", "u", "e", ":", " ", "p", "r", "o", "p", "e", "r", "t", "y", ":" >>
S_valueAttribute ==
    << " ", " ", " ", " ", " ", " ", " ", " ", " ", " ", " ", " ", "v", "a", "l", "u", "e", ":", " ", "a", "t", "t", "r", "i", "b", "u", "t", "e", ":" >>
S_metrics ==
    << " ", " ", " ", " ", " ", " ", " ", " ", " ", "m", "e", "t", "r", "i", "c", "s", ":", " " >>
S_typeGauge ==
    << " ", " ", " ", " ", " ", " ", " ", " ", " ", " ", " ", " ", "t", "y", "p", "e", ":", " ", "g", "a", "u", "g", "e", " " >>
S_constKey ==
    << " ", " ", " ", " ", " ", " ", " ", " ", " ", " ", "-", " ", "k", "e", "y", ":", " ", "j", "m", "x", ".", "c", "o", "n", "s", "t", ".", "v", "a", "l", "u", "e", " " >>
S_constValue ==
    << " ", " ", " ", " ", " ", " ", " ", " ", " ", " ", " ", " ", "v", "a", "l", "u", "e", ":", " ", "c", "o", "n", "s", "t", ":", "1", " " >>
S_undefined ==
    << "u", "n", "d", "e", "f", "i", "n", "e", "d" >>
S_jmx ==
    << "j", "m", "x", ":" >>

(***************************************************************************)
(* JMXActionProvider: key and query construction                           *)
(***************************************************************************)

\* trueMetricKey.length > 250
KeyLimit ==
    250

\* const trueSize = 249 - metricKeyLength
SliceBase ==
    249

\* if (subgroupCount < 10)
GroupCap ==
    10

\* the class [a-zA-Z0-9_.] of the third replace of ConvertMetricKey
IsKeyChar(c) ==
    IsLower(c) \/ IsUpper(c) \/ IsDigit(c) \/ c \in {"_", "."}

ConvertMetricKey(fullPath) ==
    LET a == [i \in 1..Len(fullPath) |->
                 IF fullPath[i] \in {":", "|", ","} THEN "." ELSE fullPath[i]]
        b == [i \in 1..Len(a) |->
                 IF a[i] \in {"=", "|", " "} THEN "_" ELSE a[i]]
        c == SelectSeq(b, IsKeyChar)
    IN  c \o << "." >>

\* the regular expression /=,/g: the start of the first match at or after
\* index i, 0 when there is none
nextMatch(s, i) ==
    IF \E j \in i..(Len(s) - 1) : s[j] = "=" /\ s[j + 1] = ","
    THEN CHOOSE j \in i..(Len(s) - 1) :
            /\ s[j] = "=" /\ s[j + 1] = ","
            /\ \A k \in i..(j - 1) : ~(s[k] = "=" /\ s[k + 1] = ",")
    ELSE 0

\* fullPath.replace(/=,/g, "=*,"): match after match from the left, the scan
\* resuming behind each match
RECURSIVE replaceEqComma(_, _)
replaceEqComma(s, i) ==
    IF nextMatch(s, i) = 0 THEN SubSeq(s, i, Len(s))
    ELSE SubSeq(s, i, nextMatch(s, i) - 1) \o << "=", "*", "," >>
         \o replaceEqComma(s, nextMatch(s, i) + 2)

\* formatQuery that only rewrites a trailing "="
formatQueryTrailingOnly(fullPath) ==
    IF endsWith(fullPath, << "=" >>) THEN fullPath \o << "*" >> ELSE fullPath

formatQuery(fullPath) ==
    LET query == replaceEqComma(fullPath, 1)
    IN  IF endsWith(query, << "=" >>) THEN query \o << "*" >> ELSE query

\* the key cut to the limit as a whole, attribute name included
trueMetricKeyCutWhole(metricKey, name) ==
    slice0(metricKey \o toLowerCase(name), KeyLimit)

\* lines 138-145 and 185-192: the key of one numeric attribute
trueMetricKey(metricKey, name) ==
    LET lower == toLowerCase(name)
        full  == metricKey \o lower
    IN  IF Len(full) > KeyLimit
        THEN slice0(metricKey, SliceBase - Len(lower)) \o << "." >> \o lower
        ELSE full

(***************************************************************************)
(* JMXActionProvider.createQueryInsertions                                 *)
(***************************************************************************)

RECURSIVE Flatten(_)
Flatten(ss) ==
    IF ss = << >> THEN << >> ELSE Head(ss) \o Flatten(Tail(ss))

\* "..." + v for a value that may be undefined or a number
Concat(v) ==
    IF v = Undefined THEN S_undefined
    ELSE IF v = NonString THEN << "5" >> ELSE v

\* the dimension loops without the numeric test: every attribute a dimension
dimensionLinesAllAttributes(element) ==
    Flatten([i \in 1..Len(element.properties) |->
                << Piece(S_key, toLowerCase(element.properties[i])),
                   Piece(S_valueProperty, element.properties[i]) >>])
    \o
    Flatten([i \in 1..Len(element.metrics) |->
                << Piece(S_key, toLowerCase(element.metrics[i].name)),
                   Piece(S_valueAttribute, element.metrics[i].name) >>])

\* the two dimension loops: properties first, then the non-numeric attributes
dimensionLines(element) ==
    Flatten([i \in 1..Len(element.properties) |->
                << Piece(S_key, toLowerCase(element.properties[i])),
                   Piece(S_valueProperty, element.properties[i]) >>])
    \o
    Flatten([i \in 1..Len(element.metrics) |->
                IF ~element.metrics[i].numeric
                THEN << Piece(S_key, toLowerCase(element.metrics[i].name)),
                        Piece(S_valueAttribute, element.metrics[i].name) >>
                ELSE << >>])

hasMetric(element) ==
    \E i \in 1..Len(element.metrics) : element.metrics[i].numeric

\* the placeholder written for every element, numeric attributes or not
metricLinesAlwaysConst(element) ==
    Flatten([i \in 1..Len(element.metrics) |->
                IF element.metrics[i].numeric
                THEN << Piece(S_key, trueMetricKey(ConvertMetricKey(element.fullPath),
                                                   element.metrics[i].name)),
                        Piece(S_typeGauge, << >>),
                        Piece(S_valueAttribute, element.metrics[i].name) >>
                ELSE << >>])
    \o << Piece(S_constKey, << >>), Piece(S_typeGauge, << >>),
               Piece(S_constValue, << >>) >>

\* the metrics loop and the jmx.const.value fallback
metricLines(element) ==
    Flatten([i \in 1..Len(element.metrics) |->
                IF element.metrics[i].numeric
                THEN << Piece(S_key, trueMetricKey(ConvertMetricKey(element.fullPath),
                                                   element.metrics[i].name)),
                        Piece(S_typeGauge, << >>),
                        Piece(S_valueAttribute, element.metrics[i].name) >>
                ELSE << >>])
    \o (IF hasMetric(element) THEN << >>
        ELSE << Piece(S_constKey, << >>), Piece(S_typeGauge, << >>),
               Piece(S_constValue, << >>) >>)

\* what one pass of the loop body appends for the subgroup of an element
subgroupLines(element, rollover) ==
    << Piece(S_subgroup, Concat(element.fullPath)),
       Piece(S_query, formatQuery(element.fullPath)),
       Piece(IF rollover THEN S_dimensionsRoll ELSE S_dimensions, << >>) >>
    \o dimensionLines(element)
    \o << Piece(S_metrics, << >>) >>
    \o metricLines(element)

\* a TypeError is thrown while the element is processed: formatQuery calls
\* replace on a fullPath that is no string, or toLowerCase is called on a
\* name that is no string
elementThrows(element) ==
    \/ ~IsString(element.fullPath)
    \/ \E i \in 1..Len(element.metrics) : ~IsString(element.metrics[i].name)

\* the elements visited last to first
elementsOfReversed(data) ==
    LET flat == Flatten([d \in 1..Len(data.domains) |->
                    Flatten([m \in 1..Len(data.domains[d].data) |->
                                data.domains[d].data[m].data])])
    IN  [i \in 1..Len(flat) |-> flat[Len(flat) + 1 - i]]

\* the nested for-loops over domain, mbean and element, in iteration order
elementsOf(data) ==
    Flatten([d \in 1..Len(data.domains) |->
                Flatten([m \in 1..Len(data.domains[d].data) |->
                            data.domains[d].data[m].data])])

\* the loop body with the rollover test off by one
loopBodyLateRollover(st, element) ==
    IF st.subgroupCount <= GroupCap
    THEN [groupCount    |-> st.groupCount,
          subgroupCount |-> st.subgroupCount + 1,
          yamlString    |-> st.yamlString \o subgroupLines(element, FALSE)]
    ELSE [groupCount    |-> st.groupCount + 1,
          subgroupCount |-> 1,
          yamlString    |-> st.yamlString
                            \o << Piece(S_group, toString(st.groupCount + 1)),
                                  Piece(S_subgroups, << >>) >>
                            \o subgroupLines(element, TRUE)]

\* lines 114-204: one pass of the loop body
loopBody(st, element) ==
    IF st.subgroupCount < GroupCap
    THEN [groupCount    |-> st.groupCount,
          subgroupCount |-> st.subgroupCount + 1,
          yamlString    |-> st.yamlString \o subgroupLines(element, FALSE)]
    ELSE [groupCount    |-> st.groupCount + 1,
          subgroupCount |-> 1,
          yamlString    |-> st.yamlString
                            \o << Piece(S_group, toString(st.groupCount + 1)),
                                  Piece(S_subgroups, << >>) >>
                            \o subgroupLines(element, TRUE)]

RECURSIVE loop(_, _, _)
loop(elements, i, st) ==
    IF i > Len(elements) THEN st
    ELSE loop(elements, i + 1, loopBody(st, elements[i]))

\* lines 106-207: the text built from well-formed cached data
buildYaml(data) ==
    loop(elementsOf(data), 1,
         [groupCount    |-> 0,
          subgroupCount |-> 0,
          yamlString    |-> << Piece(S_groups, << >>),
                             Piece(S_group, toString(0)),
                             Piece(S_subgroups, << >>) >>]).yamlString

\* Object.entries(jmxJSON.jmxData) throws on the cleared cache {}, whose
\* jmxData field is undefined; an element that throws aborts the loop
buildThrows(data) ==
    \/ ~data.hasData
    \/ \E i \in 1..Len(elementsOf(data)) : elementThrows(elementsOf(data)[i])

(***************************************************************************)
(* JMXActionProvider.provideCodeActions and createInsertAction             *)
(***************************************************************************)

\* /^jmx:/gm.test(document.getText())
hasRootJmx(doc) ==
    \E i \in 1..Len(doc) : StartsWith(Text(doc[i]), S_jmx)

\* /[a-z]/i.exec(text): the index of the first letter, -1 when there is none
firstLetterIndex(text) ==
    IF \E i \in 1..Len(text) : IsLower(text[i]) \/ IsUpper(text[i])
    THEN (CHOOSE i \in 1..Len(text) :
             /\ IsLower(text[i]) \/ IsUpper(text[i])
             /\ \A j \in 1..(i - 1) : ~(IsLower(text[j]) \/ IsUpper(text[j]))) - 1
    ELSE -1

\* indentJMXSnippet(textToInsert, indent): every line moved right by indent columns
indentJMXSnippet(lines, indent) ==
    [i \in 1..Len(lines) |-> [lines[i] EXCEPT !.indent = @ + indent]]

\* createInsertAction without the "\n" in front of the text on the last line
createInsertActionNoNewline(textToInsert, doc, line) ==
    IF firstLetterIndex(Text(doc[line + 1])) >= 0
    THEN << [line      |-> line + 1,
             character |-> 0,
             newline   |-> FALSE,
             lines     |-> indentJMXSnippet(textToInsert,
                                            firstLetterIndex(Text(doc[line + 1])))] >>
    ELSE << >>

\* createInsertAction: no action (an empty list here) without a letter on the
\* trigger line; otherwise one insert at (line + 1, 0)
createInsertAction(textToInsert, doc, line) ==
    IF firstLetterIndex(Text(doc[line + 1])) >= 0
    THEN << [line      |-> line + 1,
             character |-> 0,
             newline   |-> (Len(doc) = line + 1),
             lines     |-> indentJMXSnippet(textToInsert,
                                            firstLetterIndex(Text(doc[line + 1])))] >>
    ELSE << >>

\* createQueryInsertions for data that does not make it throw
createQueryInsertions(data, doc, line) ==
    createInsertAction(buildYaml(data), doc, line)

\* the list provideCodeActions returns when nothing throws
provideCodeActions(data, doc, line) ==
    IF ~hasRootJmx(doc) \/ ~data.defined THEN << >>
    ELSE IF includes(Text(doc[line + 1]), S_jmx)
         THEN createQueryInsertions(data, doc, line)
         ELSE << >>

\* whether the call ends in an exception instead
provideCodeActionsThrows(data, doc, line) ==
    /\ hasRootJmx(doc)
    /\ data.defined
    /\ includes(Text(doc[line + 1]), S_jmx)
    /\ buildThrows(data)

\* the text of the edit in front of the text of a document line
Merge(docLine, first) ==
    [indent |-> 0, lit |-> << >>, arg |-> Text(docLine) \o Text(first)]

\* WorkspaceEdit.insert applied by the editor. The text of the edit is an
\* optional "\n" and the lines, each ended by "\n"; it goes in front of the
\* line at the position, or to the end of the last line when the position is
\* past the document
applyInsert(doc, action) ==
    LET text == IF action.newline
                THEN << Piece(<< >>, << >>) >> \o action.lines
                ELSE action.lines
    IN  IF action.line >= Len(doc)
        THEN SubSeq(doc, 1, Len(doc) - 1)
             \o << Merge(doc[Len(doc)], Head(text)) >>
             \o Tail(text) \o << Piece(<< >>, << >>) >>
        ELSE SubSeq(doc, 1, action.line) \o text
             \o SubSeq(doc, action.line + 1, Len(doc))

(***************************************************************************)
(* Inputs: scrape data and documents                                       *)
(***************************************************************************)
PathFoo ==
    << "D", "o", "m", "a", "i", "n", ":", "t", "y", "p", "e", "=", "F", "o", "o", ",", "n", "a", "m", "e", "=" >>
PathSub ==
    << "D", "o", "m", "a", "i", "n", ":", "t", "y", "p", "e", "=", "F", "o", "o", ",", "n", "a", "m", "e", "=", ",", "s", "u", "b", "=", "X" >>
PathPool ==
    << "j", "a", "v", "a", ".", "l", "a", "n", "g", ":", "t", "y", "p", "e", "=", "M", "e", "m", "o", "r", "y", " ", "P", "o", "o", "l", "|", "x", "-", "1" >>
NameCount ==
    << "C", "o", "u", "n", "t" >>
NameState ==
    << "S", "t", "a", "t", "e" >>
NameHeapUsed ==
    << "H", "e", "a", "p", " ", "U", "s", "e", "d", "-", "%" >>
NameMax ==
    << "M", "a", "x" >>
KeyType ==
    << "t", "y", "p", "e" >>
KeyName ==
    << "N", "a", "m", "e" >>
LineName ==
    << "n", "a", "m", "e", ":", " ", "d", "e", "m", "o" >>
LineJmx ==
    << "j", "m", "x", ":" >>
LineVars ==
    << "v", "a", "r", "s", ":" >>
LineSnmp ==
    << "s", "n", "m", "p", ":" >>
LineComment ==
    << " ", " ", "#", " ", "a", "f", "t", "e", "r", " ", "j", "m", "x", ":", " ", "c", "o", "m", "e", "s", " ", "s", "n", "m", "p" >>
LineDashes ==
    << "-", "-", "-" >>

\* largest number of scraped elements in the grouping inputs
MaxElems ==
    23

\* longest path in the exhaustive family of short paths
MaxPathLen ==
    4

\* elements per mbean and mbeans per domain in the generated scrape data
MbeanSize ==
    3

DomainSize ==
    2

\* how many offered insertions the user applies
MaxInserts ==
    1

\* the last line (0-based) the editor asks code actions for
MaxLine ==
    3

Metric(name, numeric) ==
    [name |-> name, numeric |-> numeric]

Element(fullPath, properties, metrics) ==
    [fullPath |-> fullPath, properties |-> properties, metrics |-> metrics]

\* a numeric and a non-numeric attribute, two properties
Good1 ==
    Element(PathFoo, << KeyType, KeyName >>,
            << Metric(NameCount, TRUE), Metric(NameState, FALSE) >>)

\* no numeric attribute
Good2 ==
    Element(PathSub, << KeyType >>, << Metric(NameState, FALSE) >>)

\* two numeric attributes, no property
Good3 ==
    Element(PathSub, << >>, << Metric(NameCount, TRUE), Metric(NameMax, TRUE) >>)

\* no attribute at all
Good4 ==
    Element(PathFoo, << >>, << >>)

GoodCycle ==
    << Good1, Good2, Good3, Good4 >>

\* attribute names and paths with characters outside [a-zA-Z0-9_.]
OddElements ==
    { Element(PathPool, << KeyType >>, << Metric(NameCount, TRUE) >>),
      Element(PathFoo, << >>, << Metric(NameHeapUsed, TRUE) >>),
      Element(PathPool, << >>, << Metric(NameHeapUsed, TRUE), Metric(NameState, FALSE) >>) }

\* malformed or partially populated elements
BadElements ==
    { Element(Undefined, << KeyType >>, << Metric(NameCount, TRUE) >>),
      Element(NonString, << >>, << Metric(NameCount, TRUE) >>),
      Element(PathFoo, << >>, << Metric(Undefined, TRUE) >>),
      Element(PathFoo, << >>, << Metric(Undefined, FALSE) >>),
      Element(PathFoo, << KeyType >>, << Metric(NameCount, TRUE), Metric(NonString, TRUE) >>) }

PathLens ==
    { 8, 247, 248, 249, 250, 260 }

NameLens ==
    { 1, 2, 248, 249, 250, 251 }

LongPath(p) ==
    << "D", ":" >> \o Rep(<< "a" >>, p - 2)

LongName(l) ==
    << "N" >> \o Rep(<< "b" >>, l - 1)

LongElements ==
    { Element(LongPath(p), << >>, << Metric(LongName(l), TRUE) >>) :
        p \in PathLens, l \in NameLens }

\* another object name that ConvertMetricKey maps to the key of PathPool
PathPoolAlt ==
    << "j", "a", "v", "a", ".", "l", "a", "n", "g", ":", "t", "y", "p", "e", "=", "M", "e", "m", "o", "r", "y", "_", "P", "o", "o", "l", "|", "x", "1" >>

\* another attribute name with the lower-case form of NameCount
NameCountLower ==
    << "c", "o", "u", "n", "t" >>

\* pairs of (fullPath, attribute) that are different sources: paths that differ
\* in replaced or removed characters, paths that differ behind the cut of the
\* truncation, attribute names that differ in case
CollidingFlats ==
    { << Element(PathPool, << >>, << Metric(NameCount, TRUE) >>),
         Element(PathPoolAlt, << >>, << Metric(NameCount, TRUE) >>) >>,
      << Element(LongPath(260), << >>, << Metric(NameCount, TRUE) >>),
         Element(LongPath(255), << >>, << Metric(NameCount, TRUE) >>) >>,
      << Element(PathFoo, << >>,
                 << Metric(NameCount, TRUE), Metric(NameCountLower, TRUE) >>) >> }

\* every path over a three-letter alphabet up to MaxPathLen characters
ShortPaths ==
    UNION { [1..k -> {"=", ",", "a"}] : k \in 0..MaxPathLen }

ShortPathElements ==
    { Element(p, << >>, << Metric(NameCount, TRUE) >>) : p \in ShortPaths }

\* the scrape response: domain -> mbean -> element, as ordered entry lists
Nest(flat) ==
    LET nMbeans  == (Len(flat) + MbeanSize - 1) \div MbeanSize
        mbeans   == [m \in 1..nMbeans |->
                        [data |-> SubSeq(flat, MbeanSize * (m - 1) + 1,
                                         IF MbeanSize * m < Len(flat)
                                         THEN MbeanSize * m ELSE Len(flat))]]
        nDomains == (nMbeans + DomainSize - 1) \div DomainSize
    IN  [d \in 1..nDomains |->
            [data |-> SubSeq(mbeans, DomainSize * (d - 1) + 1,
                             IF DomainSize * d < nMbeans
                             THEN DomainSize * d ELSE nMbeans)]]

Response(flat) ==
    [defined |-> TRUE, hasData |-> TRUE, domains |-> Nest(flat)]

\* the cache before any data was stored, and after setJMXData({})
NoCache ==
    [defined |-> FALSE, hasData |-> FALSE, domains |-> << >>]

EmptyObject ==
    [defined |-> TRUE, hasData |-> FALSE, domains |-> << >>]

GoodFlat(n) ==
    [i \in 1..n |-> GoodCycle[((i - 1) % Len(GoodCycle)) + 1]]

GroupingData ==
    { Response(GoodFlat(n)) : n \in 0..MaxElems }

SingleData ==
    { Response(<< e >>) : e \in OddElements \cup LongElements \cup ShortPathElements }

CollidingData ==
    { Response(flat) : flat \in CollidingFlats }

MalformedData ==
    { Response(<< Good1, e >>) : e \in BadElements }
    \cup { Response(<< e, Good2 >>) : e \in BadElements }

AllData ==
    GroupingData \cup SingleData \cup CollidingData \cup MalformedData
    \cup { NoCache, EmptyObject }

DocLine(text) ==
    Piece(<< >>, text)

DocMiddle ==
    << DocLine(LineName), DocLine(LineJmx), DocLine(LineVars) >>

DocLast ==
    << DocLine(LineName), DocLine(LineComment), DocLine(LineJmx) >>

DocOther ==
    << DocLine(LineName), DocLine(LineSnmp) >>

\* a document with a line that has no letter, jmx: on the last line
DocDashed ==
    << DocLine(LineDashes), DocLine(LineJmx) >>

Documents ==
    { DocMiddle, DocLast, DocOther, DocDashed }

(***************************************************************************)
(* The code action provider as a state machine                             *)
(***************************************************************************)

NoTarget ==
    << "undefined", "undefined", "undefined", "undefined" >>

\* the JMXCodeLensProvider as constructed
ScrapeIdle ==
    /\ pc = "idle"
    /\ commands = 0
    /\ changeConfig = FALSE
    /\ method = "undefined"
    /\ jmxUrl = "undefined"
    /\ jmxAuth = "undefined"
    /\ jmxUsername = "undefined"
    /\ jmxPassword = "undefined"
    /\ lastScrape = 0
    /\ response = NoCache
    /\ details = FALSE
    /\ scrapeSuccess = FALSE
    /\ cacheTarget = NoTarget
    /\ fired = 0

\* a manifest: its version line and the rest of its text
Manifest(version, body) ==
    [version |-> version, body |-> body]

NoVersion ==
    << >>

\* no environment is connected: getCurrentEnvironment() resolves to undefined
NoEnvironment ==
    [present |-> FALSE, apps |-> FALSE]

\* no openScreen command is running
NoArgs ==
    [entityType |-> "", screenType |-> ""]

\* no createAlert command has run
AlertIdle ==
    /\ apc = "idle"
    /\ alertsRun = 0
    /\ manifestText = << >>
    /\ extensionText = << >>
    /\ fileName = << >>
    /\ alertFiles = { }
    /\ alertResult = "none"
    /\ overwritten = << >>

\* the screen lens provider as constructed, with nothing opened or shown
ScreenIdle ==
    /\ spc = "idle"
    /\ environment = NoEnvironment
    /\ screenArgs = NoArgs
    /\ opened = << >>
    /\ entityQueries = << >>
    /\ messages = << >>

\* no build was started
BuildIdle ==
    /\ bpc = "idle"
    /\ fastMode = FALSE
    /\ dt = FALSE
    /\ python = FALSE
    /\ cancelRequested = FALSE
    /\ extension = Manifest(NoVersion, "saved")
    /\ currentVersion = NoVersion
    /\ updatedVersion = NoVersion
    /\ zipFilename = NoVersion
    /\ valid = "unset"
    /\ existingVersions = << >>
    /\ uploads = 0
    /\ statusBar = "unset"
    /\ manifestFile = Manifest(NoVersion, "saved")
    /\ manifestWrites = 0
    /\ extensionDocument = [content |-> Manifest(NoVersion, "saved"), isDirty |-> FALSE]
    /\ storage = FALSE
    /\ dist = { }
    /\ tenant = << >>
    /\ deleting = { }
    /\ remoteCalls = << >>

Init ==
    /\ \/ jmxData \in AllData /\ document = DocMiddle
       \/ jmxData \in GroupingData \cup MalformedData \cup { NoCache, EmptyObject }
          /\ document \in { DocLast, DocOther }
       \/ jmxData \in { Response(GoodFlat(n)) : n \in 1..2 } /\ document = DocDashed
    /\ range = 0
    /\ outcome = "idle"
    /\ codeActions = << >>
    /\ inserted = 0
    /\ ScrapeIdle
    /\ BuildIdle
    /\ ScreenIdle
    /\ AlertIdle

\* the editor asks for the code actions at a line of the document
ProvideCodeActions ==
    /\ \E line \in 0..(Len(document) - 1) :
          /\ line <= MaxLine
          /\ range' = line
          /\ IF provideCodeActionsThrows(jmxData, document, line)
             THEN outcome' = "threw" /\ codeActions' = << >>
             ELSE /\ outcome' = "returned"
                  /\ codeActions' = provideCodeActions(jmxData, document, line)
    /\ UNCHANGED << jmxData, document, inserted >>
    /\ UNCHANGED scrapeVars
    /\ UNCHANGED << buildVars, screenVars, alertVars >>

\* the user picks the offered action and the editor applies its edit
ApplyEdit ==
    /\ outcome = "returned"
    /\ codeActions # << >>
    /\ inserted < MaxInserts
    /\ document' = applyInsert(document, codeActions[1])
    /\ inserted' = inserted + 1
    /\ outcome' = "idle"
    /\ codeActions' = << >>
    /\ UNCHANGED << jmxData, range >>
    /\ UNCHANGED scrapeVars
    /\ UNCHANGED << buildVars, screenVars, alertVars >>

Next ==
    \/ ProvideCodeActions
    \/ ApplyEdit

Spec ==
    Init /\ [][Next]_vars

(***************************************************************************)
(* Reading the offered fragment back                                       *)
(***************************************************************************)

\* texts the claims expect to read
QueryFooExpected ==
    << "D", "o", "m", "a", "i", "n", ":", "t", "y", "p", "e", "=", "F", "o", "o", ",", "n", "a", "m", "e", "=", "*" >>
QuerySubExpected ==
    << "D", "o", "m", "a", "i", "n", ":", "t", "y", "p", "e", "=", "F", "o", "o", ",", "n", "a", "m", "e", "=", "*", ",", "s", "u", "b", "=", "X" >>
ConstKeyExpected ==
    << "j", "m", "x", ".", "c", "o", "n", "s", "t", ".", "v", "a", "l", "u", "e" >>
\* an insertion action was offered by the last provideCodeActions call
Offered ==
    outcome = "returned" /\ codeActions # << >>

\* the last call reached createQueryInsertions
Triggered ==
    /\ outcome # "idle"
    /\ hasRootJmx(document)
    /\ jmxData.defined
    /\ includes(Text(document[range + 1]), S_jmx)

\* the lines of the offered fragment
Frag ==
    codeActions[1].lines

IsLine(i, lit) ==
    i \in 1..Len(Frag) /\ Frag[i].lit = lit

GroupIdx ==
    { i \in 1..Len(Frag) : IsLine(i, S_group) }

SubgroupIdx ==
    { i \in 1..Len(Frag) : IsLine(i, S_subgroup) }

\* a metrics entry is a key line followed by its type line
MetricKeyIdx ==
    { i \in 1..Len(Frag) :
        (IsLine(i, S_key) \/ IsLine(i, S_constKey)) /\ IsLine(i + 1, S_typeGauge) }

\* the key a key line defines; the placeholder line is the literal
\* "- key: jmx.const.value " with a trailing blank
KeyAt(i) ==
    IF IsLine(i, S_constKey) THEN ConstKeyExpected ELSE Frag[i].arg

\* how many lines of a kind stand before line i
Before(i, lit) ==
    Cardinality({ j \in 1..(i - 1) : IsLine(j, lit) })

\* the first line after line i that has one of the literals, 0 if there is none
FirstAfter(i, lits) ==
    IF \E j \in (i + 1)..Len(Frag) : Frag[j].lit \in lits
    THEN CHOOSE j \in (i + 1)..Len(Frag) :
            /\ Frag[j].lit \in lits
            /\ \A k \in (i + 1)..(j - 1) : Frag[k].lit \notin lits
    ELSE 0

\* the last line of the subgroup that starts at line s
BlockEnd(s) ==
    IF FirstAfter(s, {S_subgroup, S_group}) = 0 THEN Len(Frag)
    ELSE FirstAfter(s, {S_subgroup, S_group}) - 1

\* the metrics header of the subgroup that starts at line s
MetricsHeader(s) ==
    FirstAfter(s, {S_metrics})

\* the element a subgroup line was written for: subgroups follow the elements
ElementAt(s) ==
    elementsOf(jmxData)[Before(s, S_subgroup) + 1]

CachedElements ==
    elementsOf(jmxData)

\* the attributes of an element with the given numeric flag, in order
NamesWith(element, flag) ==
    LET idx == { i \in 1..Len(element.metrics) : element.metrics[i].numeric = flag }
    IN  [k \in 1..Cardinality(idx) |->
            element.metrics[CHOOSE i \in idx :
                               Cardinality({ j \in idx : j < i }) = k - 1].name]

\* the numeric attributes of an element, in order
NumericNames(element) ==
    LET idx == { i \in 1..Len(element.metrics) : element.metrics[i].numeric }
    IN  [k \in 1..Cardinality(idx) |->
            element.metrics[CHOOSE i \in idx :
                               Cardinality({ j \in idx : j < i }) = k - 1].name]

(***************************************************************************)
(* Claims about the fragment                                               *)
(***************************************************************************)

\* C1: for scrape data with n >= 1 elements the offered fragment holds exactly
\* ceil(n/10) groups, named group_0, group_1, ... in order; every group but
\* the last holds exactly 10 subgroups, the last holds the rest, and no group
\* holds more than 10; no subgroup stands before the first group.
C1_GroupRollover ==
    (Offered /\ Len(CachedElements) >= 1) =>
        LET n == Len(CachedElements)
            G == Cardinality(GroupIdx)
        IN  /\ G = (n + 9) \div 10
            /\ Cardinality(SubgroupIdx) = n
            /\ \A g \in GroupIdx :
                  LET k    == Before(g, S_group) + 1
                      next == FirstAfter(g, {S_group})
                      last == IF next = 0 THEN Len(Frag) + 1 ELSE next
                      subs == Before(last, S_subgroup) - Before(g, S_subgroup)
                  IN  /\ Frag[g].arg = toString(k - 1)
                      /\ Before(g, S_subgroup) = 10 * (k - 1)
                      /\ subs <= 10
                      /\ subs = IF k < G THEN 10 ELSE n - 10 * (G - 1)

\* C1 witness: 23 elements were turned into three groups of 10, 10 and 3.
C1_Witness ==
    /\ Offered
    /\ Len(CachedElements) = 23
    /\ Cardinality(GroupIdx) = 3
    /\ \E g \in GroupIdx :
          /\ Frag[g].arg = << "2" >>
          /\ Before(g, S_subgroup) = 20
          /\ Before(Len(Frag) + 1, S_subgroup) = 23

\* C2: every metric key of an offered fragment is at most 250 characters long,
\* whatever the path and however long the attribute name.
C2_KeyLength ==
    Offered => \A i \in MetricKeyIdx : Len(KeyAt(i)) <= 250

\* C3: every metric key of an offered fragment consists only of characters in
\* [a-zA-Z0-9_.], prefix and attribute-name part alike.
C3_KeyCharset ==
    Offered => \A i \in MetricKeyIdx :
                  \A j \in 1..Len(KeyAt(i)) : IsKeyChar(KeyAt(i)[j])

\* C4: when the sanitized prefix plus the lower-cased attribute name exceeds
\* 250 characters the emitted key ends with "." and the complete lower-cased
\* name, and what stands before is a proper leading slice of the sanitized
\* prefix; otherwise the key is exactly prefix plus lower-cased name.
C4_TruncatePrefixOnly ==
    Offered =>
        \A s \in SubgroupIdx :
            LET names  == NumericNames(ElementAt(s))
                prefix == ConvertMetricKey(ElementAt(s).fullPath)
                m      == MetricsHeader(s)
            IN  \A k \in 1..Len(names) :
                    LET key   == Frag[m + 3 * k - 2].arg
                        lower == toLowerCase(names[k])
                        front == Len(key) - Len(lower) - 1
                    IN  /\ IsLine(m + 3 * k - 2, S_key)
                        /\ IF Len(prefix) + Len(lower) > 250
                           THEN /\ endsWith(key, << "." >> \o lower)
                                /\ front < Len(prefix)
                                /\ SubSeq(key, 1, front) = SubSeq(prefix, 1, front)
                           ELSE key = prefix \o lower

\* C4 witness: an offered fragment holds a key whose prefix was cut to make
\* room for the whole attribute name.
C4_Witness ==
    /\ Offered
    /\ \E s \in SubgroupIdx :
          /\ Len(ConvertMetricKey(ElementAt(s).fullPath)) = 261
          /\ NumericNames(ElementAt(s)) # << >>
          /\ Len(NumericNames(ElementAt(s))[1]) = 2
          /\ Len(Frag[MetricsHeader(s) + 1].arg) = 250

\* C5: the metrics list of an element without numeric attributes is exactly
\* the placeholder (key jmx.const.value, type gauge, value const:1); for an
\* element with numeric attributes the placeholder is absent and there is one
\* key per numeric attribute; no metrics list is empty.
C5_ConstFallback ==
    Offered =>
        \A s \in SubgroupIdx :
            LET m == MetricsHeader(s)
                b == BlockEnd(s)
            IN  /\ m > s
                /\ m < b
                /\ IF hasMetric(ElementAt(s))
                   THEN /\ \A i \in (m + 1)..b : ~IsLine(i, S_constKey)
                        /\ Cardinality({ i \in (m + 1)..b : IsLine(i, S_key) })
                              = Len(NumericNames(ElementAt(s)))
                   ELSE /\ b = m + 3
                        /\ IsLine(m + 1, S_constKey)
                        /\ KeyAt(m + 1) = ConstKeyExpected
                        /\ Frag[m + 1].arg = << >>
                        /\ IsLine(m + 2, S_typeGauge) /\ Frag[m + 2].arg = << >>
                        /\ IsLine(m + 3, S_constValue) /\ Frag[m + 3].arg = << >>

\* C5 witness: one fragment holds a subgroup with the placeholder and a
\* subgroup with real metrics.
C5_Witness ==
    /\ Offered
    /\ \E s \in SubgroupIdx :
          ~hasMetric(ElementAt(s)) /\ IsLine(MetricsHeader(s) + 1, S_constKey)
    /\ \E s \in SubgroupIdx :
          hasMetric(ElementAt(s)) /\ IsLine(MetricsHeader(s) + 1, S_key)

\* the positions of a path that get a "*" behind them: an "=" that is last
\* or stands before a ","
StarPos(p) ==
    { i \in 1..Len(p) : p[i] = "=" /\ (i = Len(p) \/ p[i + 1] = ",") }

\* q is p with a "*" put behind every position of StarPos(p), nothing else
\* changed
IsStarred(q, p) ==
    /\ Len(q) = Len(p) + Cardinality(StarPos(p))
    /\ \A i \in 1..Len(p) :
          q[i + Cardinality({ j \in StarPos(p) : j < i })] = p[i]
    /\ \A i \in StarPos(p) :
          q[i + Cardinality({ j \in StarPos(p) : j < i }) + 1] = "*"

\* C6: the query of a subgroup is its path with every "=," turned into "=*,"
\* and a "*" appended exactly when it ends with "=", no other character
\* changed; it never contains "=," and never ends with "="; the two examples
\* of the specification come out as stated.
C6_FormatQuery ==
    Offered =>
        \A s \in SubgroupIdx :
            LET p == ElementAt(s).fullPath
                q == Frag[s + 1].arg
            IN  /\ IsLine(s + 1, S_query)
                /\ IsStarred(q, p)
                /\ ~includes(q, << "=", "," >>)
                /\ ~endsWith(q, << "=" >>)
                /\ (p = PathFoo => q = QueryFooExpected)
                /\ (p = PathSub => q = QuerySubExpected)

\* C6 witness: both examples were formatted, one with an interior "=," and
\* one with a trailing "=".
C6_Witness ==
    /\ Offered
    /\ \E s \in SubgroupIdx :
          ElementAt(s).fullPath = PathSub /\ Frag[s + 1].arg = QuerySubExpected
    /\ \E s \in SubgroupIdx :
          ElementAt(s).fullPath = PathFoo /\ Frag[s + 1].arg = QueryFooExpected

\* C7: once the offered fragment has been inserted, provideCodeActions on the
\* updated document with the same scrape data offers no insertion again.
C7_Idempotent ==
    (inserted >= 1 /\ outcome = "returned") => codeActions = << >>

\* C8: with a malformed element among the scraped ones the provider still
\* returns an insertion action, whose fragment holds the subgroup of every
\* well-formed element; no exception escapes.
C8_SkipMalformed ==
    (Triggered /\ jmxData.hasData) =>
        /\ outcome = "returned"
        /\ codeActions # << >>
        /\ \A e \in 1..Len(CachedElements) :
              ~elementThrows(CachedElements[e]) =>
                  \E s \in SubgroupIdx : Frag[s].arg = CachedElements[e].fullPath

(***************************************************************************)
(* JMXCodeLensProvider: the scrape workflow                                *)
(***************************************************************************)

\* how many scrape commands the user starts
MaxCommands ==
    3

\* what the user may answer to a prompt; "undefined" is a cancelled prompt
MethodAnswers ==
    { "undefined", "Endpoint" }

UrlAnswers ==
    { "undefined", "", "urlA", "urlB" }

AuthAnswers ==
    { "undefined", "No authentication", "Username & password" }

UsernameAnswers ==
    { "undefined", "user" }

PasswordAnswers ==
    { "undefined", "secret" }

\* res.data of a completed request; null makes Object.keys throw
NullResponse ==
    [defined |-> FALSE, hasData |-> FALSE, domains |-> << >>]

Responses ==
    { Response(<< Good1 >>), Response(<< Good2, Good3 >>), NullResponse }

\* !value for a string that may be undefined
Falsy(v) ==
    v = "undefined" \/ v = ""

\* the scrape target the provider has stored
StoredTarget ==
    << jmxUrl, jmxAuth, jmxUsername, jmxPassword >>

\* JMXscrape up to its await: "request" when axios.get is issued, "false"
\* when it returns false (or falls out of the switch) at once
JMXscrapeStart(m, url, auth, user, pw) ==
    IF Falsy(url) THEN "false"
    ELSE IF m # "Endpoint" THEN "false"
    ELSE IF auth = "No authentication" THEN "request"
    ELSE IF auth = "Username & password"
         THEN (IF Falsy(user) \/ Falsy(pw) THEN "false" ELSE "request")
         ELSE "false"

\* processJMXData walks the response and reads every element; what it reads
\* stays in local variables (setJMXData is commented out)
processJMXData(data) ==
    elementsOf(data)

\* Object.keys(data) throws on a response without a body
processJMXDataThrows(data) ==
    ~data.defined

\* scrapeJMXMetrics from line 139 on, collectJMXScrapingDetails having
\* returned d with the fields as given
AfterDetails(d, m, url, auth, user, pw) ==
    /\ details' = d
    /\ scrapeSuccess' = FALSE
    /\ IF d
       THEN /\ jmxData' = EmptyObject
            /\ cacheTarget' = NoTarget
            /\ pc' = IF JMXscrapeStart(m, url, auth, user, pw) = "request"
                     THEN "request" ELSE "idle"
       ELSE /\ pc' = "idle"
            /\ UNCHANGED << jmxData, cacheTarget >>

\* the "Scrape data" (cc = FALSE) or "Edit config" (cc = TRUE) lens is clicked;
\* the second lens exists only once a scrape succeeded
ScrapeCommand ==
    /\ pc = "idle"
    /\ commands < MaxCommands
    /\ \E cc \in BOOLEAN :
          /\ cc => lastScrape # 0
          /\ changeConfig' = cc
          /\ IF Falsy(jmxUrl) \/ cc
             THEN pc' = "method"
             ELSE pc' = IF JMXscrapeStart(method, jmxUrl, jmxAuth,
                                          jmxUsername, jmxPassword) = "request"
                        THEN "request" ELSE "idle"
    /\ commands' = commands + 1
    /\ scrapeSuccess' = FALSE
    /\ UNCHANGED << jmxData, method, jmxUrl, jmxAuth, jmxUsername, jmxPassword,
                    lastScrape, response, details, cacheTarget, fired >>
    /\ UNCHANGED actionVars
    /\ UNCHANGED << buildVars, screenVars, alertVars >>

\* the method quick pick is answered
AnswerMethod ==
    /\ pc = "method"
    /\ \E m \in MethodAnswers :
          /\ method' = m
          /\ IF m = "Endpoint"
             THEN /\ pc' = "url"
                  /\ UNCHANGED << jmxData, cacheTarget, details, scrapeSuccess >>
             ELSE AfterDetails(FALSE, m, jmxUrl, jmxAuth, jmxUsername, jmxPassword)
    /\ UNCHANGED << commands, changeConfig, jmxUrl, jmxAuth, jmxUsername,
                    jmxPassword, lastScrape, response, fired >>
    /\ UNCHANGED actionVars
    /\ UNCHANGED << buildVars, screenVars, alertVars >>

\* the endpoint URL input box is answered
AnswerUrl ==
    /\ pc = "url"
    /\ \E u \in UrlAnswers :
          /\ jmxUrl' = u
          /\ IF Falsy(u)
             THEN AfterDetails(FALSE, method, u, jmxAuth, jmxUsername, jmxPassword)
             ELSE /\ pc' = "auth"
                  /\ UNCHANGED << jmxData, cacheTarget, details, scrapeSuccess >>
    /\ UNCHANGED << commands, changeConfig, method, jmxAuth, jmxUsername,
                    jmxPassword, lastScrape, response, fired >>
    /\ UNCHANGED actionVars
    /\ UNCHANGED << buildVars, screenVars, alertVars >>

\* the authentication quick pick is answered
AnswerAuth ==
    /\ pc = "auth"
    /\ \E a \in AuthAnswers :
          /\ jmxAuth' = a
          /\ IF a = "Username & password"
             THEN /\ pc' = "username"
                  /\ UNCHANGED << jmxData, cacheTarget, details, scrapeSuccess >>
             ELSE AfterDetails(a = "No authentication", method, jmxUrl, a,
                               jmxUsername, jmxPassword)
    /\ UNCHANGED << commands, changeConfig, method, jmxUrl, jmxUsername,
                    jmxPassword, lastScrape, response, fired >>
    /\ UNCHANGED actionVars
    /\ UNCHANGED << buildVars, screenVars, alertVars >>

\* the username input box is answered
AnswerUsername ==
    /\ pc = "username"
    /\ \E u \in UsernameAnswers : jmxUsername' = u
    /\ pc' = "password"
    /\ UNCHANGED << jmxData, commands, changeConfig, method, jmxUrl, jmxAuth,
                    jmxPassword, lastScrape, response, details, scrapeSuccess,
                    cacheTarget, fired >>
    /\ UNCHANGED actionVars
    /\ UNCHANGED << buildVars, screenVars, alertVars >>

\* the password input box is answered
AnswerPassword ==
    /\ pc = "password"
    /\ \E p \in PasswordAnswers :
          /\ jmxPassword' = p
          /\ AfterDetails(~(Falsy(jmxUsername) \/ Falsy(p)), method, jmxUrl,
                          jmxAuth, jmxUsername, p)
    /\ UNCHANGED << commands, changeConfig, method, jmxUrl, jmxAuth,
                    jmxUsername, lastScrape, response, fired >>
    /\ UNCHANGED actionVars
    /\ UNCHANGED << buildVars, screenVars, alertVars >>

\* axios.get resolves: processJMXData runs, JMXscrape returns true and the
\* timestamp is updated, unless processJMXData throws into the catch
RequestSucceeds ==
    /\ pc = "request"
    /\ \E data \in Responses :
          /\ response' = data
          /\ IF processJMXDataThrows(data)
             THEN /\ scrapeSuccess' = FALSE
                  /\ UNCHANGED << lastScrape, fired >>
             ELSE /\ scrapeSuccess' = TRUE
                  /\ lastScrape' = lastScrape + 1
                  /\ fired' = fired + 1
    /\ pc' = "idle"
    /\ UNCHANGED << jmxData, commands, changeConfig, method, jmxUrl, jmxAuth,
                    jmxUsername, jmxPassword, details, cacheTarget >>
    /\ UNCHANGED actionVars
    /\ UNCHANGED << buildVars, screenVars, alertVars >>

\* axios.get rejects, and the timestamp is updated all the same
RequestFailsStamped ==
    /\ pc = "request"
    /\ pc' = "idle"
    /\ scrapeSuccess' = FALSE
    /\ lastScrape' = lastScrape + 1
    /\ fired' = fired + 1
    /\ UNCHANGED << jmxData, commands, changeConfig, method, jmxUrl, jmxAuth,
                    jmxUsername, jmxPassword, response, details, cacheTarget >>
    /\ UNCHANGED actionVars
    /\ UNCHANGED << buildVars, screenVars, alertVars >>

\* axios.get rejects: the catch returns false
RequestFails ==
    /\ pc = "request"
    /\ pc' = "idle"
    /\ scrapeSuccess' = FALSE
    /\ UNCHANGED << jmxData, commands, changeConfig, method, jmxUrl, jmxAuth,
                    jmxUsername, jmxPassword, lastScrape, response, details,
                    cacheTarget, fired >>
    /\ UNCHANGED actionVars
    /\ UNCHANGED << buildVars, screenVars, alertVars >>

\* the producer of the session cache stores the data of the last successful
\* scrape, obtained for the target stored at that time
StoreScrapeData ==
    /\ pc = "idle"
    /\ scrapeSuccess
    /\ jmxData # response
    /\ jmxData' = response
    /\ cacheTarget' = StoredTarget
    /\ UNCHANGED << pc, commands, changeConfig, method, jmxUrl, jmxAuth,
                    jmxUsername, jmxPassword, lastScrape, response, details,
                    scrapeSuccess, fired >>
    /\ UNCHANGED actionVars
    /\ UNCHANGED << buildVars, screenVars, alertVars >>

InitScrape ==
    /\ jmxData \in { NoCache, EmptyObject }
    /\ document = DocMiddle
    /\ range = 0
    /\ outcome = "idle"
    /\ codeActions = << >>
    /\ inserted = 0
    /\ ScrapeIdle
    /\ BuildIdle
    /\ ScreenIdle
    /\ AlertIdle

NextScrape ==
    \/ ScrapeCommand
    \/ AnswerMethod
    \/ AnswerUrl
    \/ AnswerAuth
    \/ AnswerUsername
    \/ AnswerPassword
    \/ RequestSucceeds
    \/ RequestFails

\* the scrape workflow as the code has it
SpecScrape ==
    InitScrape /\ [][NextScrape]_vars

NextStored ==
    \/ NextScrape
    \/ StoreScrapeData

\* the scrape workflow with a producer that fills the session cache
SpecStored ==
    InitScrape /\ [][NextStored]_vars

(***************************************************************************)
(* Claims about the scrape workflow                                        *)
(***************************************************************************)

C10_CacheHoldsScrape ==
    (pc = "idle" /\ scrapeSuccess) =>
        jmxData.hasData /\ elementsOf(jmxData) = processJMXData(response)

(***************************************************************************)
(* Claims about what is offered, and where                                 *)
(***************************************************************************)

\* C11: when the cache holds no elements, the provideCodeActions call returns
\* normally and offers no insertion action.
C11_NothingToAdd ==
    (outcome # "idle" /\ CachedElements = << >>) =>
        (outcome = "returned" /\ codeActions = << >>)

\* the dimension entries of the subgroup at line s are the properties and then
\* the non-numeric attributes of its element, one key/value pair each
DimensionsOf(s) ==
    LET e    == ElementAt(s)
        np   == Len(e.properties)
        dims == NamesWith(e, FALSE)
    IN  /\ MetricsHeader(s) - (s + 3) = 2 * (np + Len(dims))
        /\ \A k \in 1..np :
              /\ Frag[s + 2 * k + 1].lit = S_key
              /\ Frag[s + 2 * k + 1].arg = toLowerCase(e.properties[k])
              /\ Frag[s + 2 * k + 2].lit = S_valueProperty
              /\ Frag[s + 2 * k + 2].arg = e.properties[k]
        /\ \A k \in 1..Len(dims) :
              /\ Frag[s + 2 * (np + k) + 1].lit = S_key
              /\ Frag[s + 2 * (np + k) + 1].arg = toLowerCase(dims[k])
              /\ Frag[s + 2 * (np + k) + 2].lit = S_valueAttribute
              /\ Frag[s + 2 * (np + k) + 2].arg = dims[k]

\* the metric entries of the subgroup at line s are its element's numeric
\* attributes, one key / type gauge / value triple each
MetricsOf(s) ==
    LET nums == NamesWith(ElementAt(s), TRUE)
        h    == MetricsHeader(s)
    IN  IF nums = << >>
        THEN \A i \in (h + 1)..BlockEnd(s) : Frag[i].lit # S_valueAttribute
        ELSE /\ BlockEnd(s) - h = 3 * Len(nums)
             /\ \A k \in 1..Len(nums) :
                   /\ Frag[h + 3 * k - 2].lit = S_key
                   /\ Frag[h + 3 * k - 1].lit = S_typeGauge
                   /\ Frag[h + 3 * k].lit = S_valueAttribute
                   /\ Frag[h + 3 * k].arg = nums[k]

\* C12: in every subgroup of an offered fragment each property and each
\* non-numeric attribute is exactly one dimension (lower-cased key, value
\* property:/attribute: with the original name) and each numeric attribute is
\* exactly one gauge metric (value attribute: with the original name).
C12_AttributePartition ==
    Offered => \A s \in SubgroupIdx : DimensionsOf(s) /\ MetricsOf(s)

\* a fragment whose rollover subgroup has properties, a non-numeric and a
\* numeric attribute
C12_Witness ==
    /\ Offered
    /\ \E s \in SubgroupIdx :
          /\ Frag[s + 2].lit = S_dimensionsRoll
          /\ ElementAt(s) = Good1
          /\ Len(NamesWith(Good1, FALSE)) = 1
          /\ Len(NamesWith(Good1, TRUE)) = 1

\* the (fullPath, attribute name) pair the metric key on line i was written
\* for: the element of the enclosing subgroup and the name on the value line
KeySource(i) ==
    << elementsOf(jmxData)[Before(i, S_subgroup)].fullPath, Frag[i + 2].arg >>

\* the key lines written for numeric attributes
AttributeKeyIdx ==
    { i \in MetricKeyIdx : IsLine(i, S_key) }

\* C13: in an offered fragment two metric keys written for different
\* (fullPath, attribute name) pairs are different keys.
C13_KeysDistinct ==
    Offered =>
        \A i, j \in AttributeKeyIdx :
            KeyAt(i) = KeyAt(j) => KeySource(i) = KeySource(j)

\* C14: every dimension key and every metric key of an offered fragment is
\* free of upper-case letters.
C14_KeysLowercase ==
    Offered =>
        \A i \in 1..Len(Frag) :
            IsLine(i, S_key) =>
                \A k \in 1..Len(Frag[i].arg) : ~IsUpper(Frag[i].arg[k])

\* the (domain, mbean, element) index triples of the cached data
Triples ==
    UNION { UNION { { << d, m, k >> : k \in 1..Len(jmxData.domains[d].data[m].data) } :
                    m \in 1..Len(jmxData.domains[d].data) } :
            d \in 1..Len(jmxData.domains) }

\* triple a is visited no later than triple b by the nested loops
NotAfter(a, b) ==
    \/ a[1] < b[1]
    \/ a[1] = b[1] /\ a[2] < b[2]
    \/ a[1] = b[1] /\ a[2] = b[2] /\ a[3] <= b[3]

\* the position of a triple in the iteration
Ordinal(t) ==
    Cardinality({ u \in Triples : NotAfter(u, t) })

\* the line of the k-th subgroup of the fragment
SubgroupLine(k) ==
    CHOOSE s \in SubgroupIdx : Before(s, S_subgroup) = k - 1

\* the names on the value lines between two lines, in text order
ValueNames(lo, hi) ==
    LET sel == SelectSeq(SubSeq(Frag, lo, hi),
                         LAMBDA l : l.lit \in { S_valueProperty, S_valueAttribute })
    IN  [i \in 1..Len(sel) |-> sel[i].arg]

\* the subgroup written for the element at triple t stands at the triple's
\* position and lists the element's entries in their order
InSourceOrder(t) ==
    LET e == jmxData.domains[t[1]].data[t[2]].data[t[3]]
        s == SubgroupLine(Ordinal(t))
    IN  /\ Frag[s].arg = e.fullPath
        /\ ValueNames(s + 3, MetricsHeader(s) - 1)
              = e.properties \o NamesWith(e, FALSE)
        /\ ValueNames(MetricsHeader(s) + 1, BlockEnd(s)) = NamesWith(e, TRUE)

TriggerText ==
    Text(document[range + 1])

\* an offered action is one insert at (trigger line + 1, 0), indented to the
\* first letter of the trigger line, with a newline in front exactly on the
\* last line; without a letter nothing is offered
InsertAtNextLine ==
    /\ Offered =>
          /\ Len(codeActions) = 1
          /\ codeActions[1].line = range + 1
          /\ codeActions[1].character = 0
          /\ firstLetterIndex(TriggerText) >= 0
          /\ \A i \in 1..Len(Frag) : Frag[i].indent = firstLetterIndex(TriggerText)
          /\ codeActions[1].newline = (range + 1 = Len(document))
    /\ (outcome = "returned" /\ firstLetterIndex(TriggerText) < 0) =>
          codeActions = << >>

\* a step that changes the document keeps every line it had, the trigger line
\* included, and puts the fragment on the lines after the trigger line
InsertOnlyStep ==
    document' # document =>
        /\ Len(document') \in { Len(document) + Len(Frag),
                                Len(document) + Len(Frag) + 1 }
        /\ SubSeq(document', 1, range + 1) = SubSeq(document, 1, range + 1)
        /\ SubSeq(document', range + 2, range + 1 + Len(Frag)) = Frag
        /\ \A i \in (range + 2)..Len(document) :
              document'[i + Len(Frag)] = document[i]

\* C16: the offered action is a single insert at (trigger line + 1, column 0),
\* indented to the first letter of the trigger line and prefixed with a
\* newline when the trigger line is the last one; no action is produced for a
\* trigger line without a letter; applying the edit deletes and replaces
\* nothing and the fragment starts on its own line.
C16_InsertEdit ==
    []InsertAtNextLine /\ [][InsertOnlyStep]_vars

\* the fragment was inserted after a trigger line that was the last line
C16_Witness ==
    /\ inserted = 1
    /\ SubSeq(document, 1, 3) = DocLast
    /\ Len(document) > 4
    /\ document[4].lit = S_groups
    /\ document[4].indent = 0

\* C17: an insertion action is offered only when the document has a root-level
\* jmx: block, scrape data is cached and the trigger line is that jmx: line;
\* then at most one action is offered.
C17_ContextRequired ==
    Offered =>
        /\ hasRootJmx(document)
        /\ jmxData.defined /\ jmxData.hasData
        /\ StartsWith(TriggerText, S_jmx)
        /\ Len(codeActions) <= 1

\* JMXscrape has returned true in this step
ScrapeReturnsTrue ==
    /\ pc = "request"
    /\ pc' = "idle"
    /\ scrapeSuccess'

\* one step of the scrape workflow and the last-scrape value
LastScrapeStep ==
    /\ IF ScrapeReturnsTrue
       THEN /\ lastScrape' = lastScrape + 1
            /\ fired' = fired + 1
       ELSE /\ lastScrape' = lastScrape
            /\ fired' = fired
    /\ lastScrape # 0 => lastScrape' # 0

\* C24: the last-scrape value is updated and onDidChangeCodeLenses fired
\* exactly in the steps in which JMXscrape returns true; every other step (a
\* cancelled prompt, missing credentials, an unsupported scheme, a failed
\* request) leaves the value alone and sends no event; a value that is set
\* never becomes "N/A" again.
C24_LastScrape ==
    [](fired = lastScrape) /\ [][LastScrapeStep]_vars

\* a scrape has succeeded, and a later command ended without success
C24_Witness ==
    /\ lastScrape = 1
    /\ commands >= 2
    /\ pc = "idle"
    /\ ~scrapeSuccess

(***************************************************************************)
(* buildExtension: pre-build, assembly, validation, upload and activation  *)
(***************************************************************************)

\* existingVersions.length >= 10
VersionLimit ==
    10

\* how many uploads one uploadAndActivate run may send
MaxUploads ==
    3

\* normalizeExtensionVersion: a version is a list of numbers, made three long
normalizeExtensionVersion(version) ==
    [i \in 1..3 |-> IF i <= Len(version) THEN version[i] ELSE 0]

\* incrementExtensionVersion: the last number goes up by one
incrementExtensionVersion(version) ==
    [version EXCEPT ![Len(version)] = @ + 1]

\* extensionContent.replace(versionRegex, "version: " + nextVersion)
ReplaceVersion(content, version) ==
    [content EXCEPT !.version = version]

\* versions.includes(version)
Includes(versions, version) ==
    \E i \in 1..Len(versions) : versions[i] = version

\* the version lines a manifest on disk may have
ManifestVersions ==
    { << 1, 0 >>, << 1, 0, 1 >> }

\* a version the user typed in the editor and did not save
EditedVersion ==
    << 2, 0, 0 >>

\* n older versions on the tenant, oldest first
Old(n) ==
    [k \in 1..n |-> << 0, 9, k >>]

\* what the tenant may hold when the build of a manifest version starts
TenantLists(version) ==
    { << >>,
      << normalizeExtensionVersion(version) >>,
      Old(VersionLimit - 1),
      Old(VersionLimit),
      Old(VersionLimit - 1) \o << normalizeExtensionVersion(version) >> }

\* a call sent to the tenant
Call(op, version) ==
    [op |-> op, version |-> version, cancelled |-> cancelRequested,
     result |-> "pending"]

\* the result of the call that was awaited
Answered(result) ==
    [remoteCalls EXCEPT ![Len(remoteCalls)].result = result]

\* the test that guards the eviction, with > in place of >=
limitReachedAbove(versions) ==
    Len(versions) > VersionLimit

\* line 476: the tenant lists as many versions as it can hold
limitReached(versions) ==
    Len(versions) >= VersionLimit

\* build positions at which the build waits and the user can cancel
AwaitPoints ==
    { "save", "listVersions", "python", "validate", "ua_list",
      "ua_deleteOldest", "ua_deleteNewest", "ua_upload", "ua_sleep" }

\* the command starts: the manifest is read from disk, name and version are
\* parsed, and a dirty manifest document is saved first
BuildCommand ==
    /\ bpc = "idle"
    /\ extension' = manifestFile
    /\ currentVersion' = normalizeExtensionVersion(manifestFile.version)
    /\ bpc' = IF extensionDocument.isDirty THEN "save" ELSE "prebuild"
    /\ UNCHANGED << fastMode, dt, python, cancelRequested, updatedVersion,
                    zipFilename, valid, existingVersions, uploads, statusBar,
                    manifestFile, manifestWrites, extensionDocument, storage,
                    dist, tenant, deleting, remoteCalls >>
    /\ UNCHANGED << jmxData, actionVars, scrapeVars, screenVars, alertVars >>

\* extensionDocument.save() resolves
SaveReturns ==
    /\ bpc = "save"
    /\ \E saved \in BOOLEAN :
          IF saved
          THEN /\ manifestFile' = extensionDocument.content
               /\ extensionDocument' = [extensionDocument EXCEPT !.isDirty = FALSE]
               /\ bpc' = "prebuild"
          ELSE /\ bpc' = "done"
               /\ UNCHANGED << manifestFile, extensionDocument >>
    /\ UNCHANGED << fastMode, dt, python, cancelRequested, extension,
                    currentVersion, updatedVersion, zipFilename, valid,
                    existingVersions, uploads, statusBar, manifestWrites,
                    storage, dist, tenant, deleting, remoteCalls >>
    /\ UNCHANGED << jmxData, actionVars, scrapeVars, screenVars, alertVars >>

\* writeFileSync(extensionFile, the content read at the start with the next
\* version); a document that is open and not dirty follows the file
WriteNextVersion ==
    /\ manifestFile' = ReplaceVersion(extension, incrementExtensionVersion(currentVersion))
    /\ manifestWrites' = manifestWrites + 1
    /\ extensionDocument' =
          IF extensionDocument.isDirty THEN extensionDocument
          ELSE [extensionDocument EXCEPT !.content = manifestFile']
    /\ updatedVersion' = incrementExtensionVersion(currentVersion)

\* lines 174-200: the cancellation check, then preBuildTasks up to its await
\* or its return; a write that throws ends the build
PreBuild ==
    /\ bpc = "prebuild"
    /\ IF cancelRequested
       THEN /\ bpc' = "done"
            /\ UNCHANGED << manifestFile, manifestWrites, extensionDocument,
                            updatedVersion, remoteCalls >>
       ELSE IF fastMode
       THEN /\ UNCHANGED remoteCalls
            /\ \E written \in BOOLEAN :
                  IF written
                  THEN WriteNextVersion /\ bpc' = "assemble"
                  ELSE /\ bpc' = "done"
                       /\ UNCHANGED << manifestFile, manifestWrites,
                                       extensionDocument, updatedVersion >>
       ELSE IF dt
       THEN /\ remoteCalls' = Append(remoteCalls, Call("listVersions", currentVersion))
            /\ bpc' = "listVersions"
            /\ UNCHANGED << manifestFile, manifestWrites, extensionDocument,
                            updatedVersion >>
       ELSE /\ updatedVersion' = currentVersion
            /\ bpc' = "assemble"
            /\ UNCHANGED << manifestFile, manifestWrites, extensionDocument,
                            remoteCalls >>
    /\ UNCHANGED << fastMode, dt, python, cancelRequested, extension,
                    currentVersion, zipFilename, valid, existingVersions,
                    uploads, statusBar, storage, dist, tenant, deleting >>
    /\ UNCHANGED << jmxData, actionVars, scrapeVars, screenVars, alertVars >>

\* listVersions of preBuildTasks returns, or fails and counts as an empty list
ListVersionsReturns ==
    /\ bpc = "listVersions"
    /\ \E listed \in BOOLEAN :
          /\ remoteCalls' = Answered(IF listed THEN "ok" ELSE "failed")
          /\ IF listed /\ Includes(tenant, currentVersion)
             THEN \E written \in BOOLEAN :
                     IF written
                     THEN WriteNextVersion /\ bpc' = "assemble"
                     ELSE /\ bpc' = "done"
                          /\ UNCHANGED << manifestFile, manifestWrites,
                                          extensionDocument, updatedVersion >>
             ELSE /\ updatedVersion' = currentVersion
                  /\ bpc' = "assemble"
                  /\ UNCHANGED << manifestFile, manifestWrites, extensionDocument >>
    /\ UNCHANGED << fastMode, dt, python, cancelRequested, extension,
                    currentVersion, zipFilename, valid, existingVersions,
                    uploads, statusBar, storage, dist, tenant, deleting >>
    /\ UNCHANGED << jmxData, actionVars, scrapeVars, screenVars, alertVars >>

\* lines 204-234: the cancellation check of the finally block, the package
\* file name, and assembleStandard, which may throw; a python extension
\* waits for the dt-sdk
Assemble ==
    /\ bpc = "assemble"
    /\ IF cancelRequested
       THEN bpc' = "done" /\ UNCHANGED << zipFilename, storage >>
       ELSE /\ zipFilename' = updatedVersion
            /\ IF python
               THEN bpc' = "python" /\ UNCHANGED storage
               ELSE \E built \in BOOLEAN :
                       /\ storage' = built
                       /\ bpc' = IF built THEN "assembled" ELSE "done"
    /\ UNCHANGED << fastMode, dt, python, cancelRequested, extension,
                    currentVersion, updatedVersion, valid, existingVersions,
                    uploads, statusBar, manifestFile, manifestWrites,
                    extensionDocument, dist, tenant, deleting, remoteCalls >>
    /\ UNCHANGED << jmxData, actionVars, scrapeVars, screenVars, alertVars >>

\* the dt-sdk steps return: no sdk, a finished build, or an error
PythonReturns ==
    /\ bpc = "python"
    /\ \E result \in { "no sdk", "built", "threw" } :
          /\ storage' = (result = "built")
          /\ bpc' = IF result = "built" THEN "assembled" ELSE "done"
    /\ UNCHANGED << fastMode, dt, python, cancelRequested, extension,
                    currentVersion, updatedVersion, zipFilename, valid,
                    existingVersions, uploads, statusBar, manifestFile,
                    manifestWrites, extensionDocument, dist, tenant,
                    deleting, remoteCalls >>
    /\ UNCHANGED << jmxData, actionVars, scrapeVars, screenVars, alertVars >>

\* validateExtension copying the zip whatever the result
FinishValidationAlwaysCopy(result) ==
    /\ valid' = result
    /\ dist' = dist \cup { zipFilename }
    /\ storage' = FALSE
    /\ bpc' = "done"

\* validateExtension from line 436 on
FinishValidation(result) ==
    /\ valid' = result
    /\ dist' = IF result = "valid" THEN dist \cup { zipFilename } ELSE dist
    /\ storage' = FALSE
    /\ bpc' = "done"

\* lines 238-263 and 471-473: the cancellation check, then uploadAndActivate
\* up to its listVersions, or validateExtension up to its upload
AfterAssembly ==
    /\ bpc = "assembled"
    /\ IF cancelRequested
       THEN /\ bpc' = "done"
            /\ UNCHANGED << remoteCalls, valid, dist, storage >>
       ELSE IF fastMode
       THEN /\ remoteCalls' = Append(remoteCalls, Call("listVersions", updatedVersion))
            /\ bpc' = "ua_list"
            /\ UNCHANGED << valid, dist, storage >>
       ELSE IF dt
       THEN /\ remoteCalls' = Append(remoteCalls, Call("validate", zipFilename))
            /\ bpc' = "validate"
            /\ UNCHANGED << valid, dist, storage >>
       ELSE /\ FinishValidation("valid")
            /\ UNCHANGED remoteCalls
    /\ UNCHANGED << fastMode, dt, python, cancelRequested, extension,
                    currentVersion, updatedVersion, zipFilename,
                    existingVersions, uploads, statusBar, manifestFile,
                    manifestWrites, extensionDocument, tenant, deleting >>
    /\ UNCHANGED << jmxData, actionVars, scrapeVars, screenVars, alertVars >>

\* the validate-only upload returns
ValidateReturns ==
    /\ bpc = "validate"
    /\ \E accepted \in BOOLEAN :
          /\ remoteCalls' = Answered(IF accepted THEN "ok" ELSE "failed")
          /\ FinishValidation(IF accepted THEN "valid" ELSE "invalid")
    /\ UNCHANGED << fastMode, dt, python, cancelRequested, extension,
                    currentVersion, updatedVersion, zipFilename,
                    existingVersions, uploads, statusBar, manifestFile,
                    manifestWrites, extensionDocument, tenant, deleting >>
    /\ UNCHANGED << jmxData, actionVars, scrapeVars, screenVars, alertVars >>

\* the finally block of uploadAndActivate
RemoveFromStorage ==
    storage' = FALSE

\* lines 489-497: the top of the upload loop, the awaited call having
\* returned with the given result
StartUpload(result) ==
    IF cancelRequested
    THEN /\ remoteCalls' = Answered(result)
         /\ RemoveFromStorage
         /\ bpc' = "done"
         /\ UNCHANGED << uploads, statusBar >>
    ELSE /\ uploads < MaxUploads
         /\ remoteCalls' = Append(Answered(result), Call("upload", updatedVersion))
         /\ uploads' = uploads + 1
         /\ bpc' = "ua_upload"
         /\ UNCHANGED << storage, statusBar >>

\* lines 520-539: the catch and the finally block
FailBuild(result) ==
    /\ remoteCalls' = Answered(result)
    /\ statusBar' = "failed"
    /\ RemoveFromStorage
    /\ bpc' = "done"
    /\ UNCHANGED uploads

\* listVersions of uploadAndActivate returns, or fails and counts as empty
UaListReturns ==
    /\ bpc = "ua_list"
    /\ \E listed \in BOOLEAN :
          /\ existingVersions' = IF listed THEN tenant ELSE << >>
          /\ IF limitReached(existingVersions')
             THEN /\ remoteCalls' =
                        Append(Answered("ok"),
                               Call("deleteVersion", existingVersions'[1]))
                  /\ bpc' = "ua_deleteOldest"
                  /\ UNCHANGED << uploads, statusBar, storage >>
             ELSE StartUpload(IF listed THEN "ok" ELSE "failed")
    /\ UNCHANGED << fastMode, dt, python, cancelRequested, extension,
                    currentVersion, updatedVersion, zipFilename, valid,
                    manifestFile, manifestWrites, extensionDocument, dist,
                    tenant, deleting >>
    /\ UNCHANGED << jmxData, actionVars, scrapeVars, screenVars, alertVars >>

\* deleteVersion of the oldest version returns
UaDeleteOldestReturns ==
    /\ bpc = "ua_deleteOldest"
    /\ \E deleted \in BOOLEAN :
          IF deleted
          THEN /\ deleting' = deleting \cup { existingVersions[1] }
               /\ StartUpload("ok")
          ELSE /\ remoteCalls' =
                     Append(Answered("failed"),
                            Call("deleteVersion",
                                 existingVersions[Len(existingVersions)]))
               /\ bpc' = "ua_deleteNewest"
               /\ UNCHANGED << deleting, uploads, statusBar, storage >>
    /\ UNCHANGED << fastMode, dt, python, cancelRequested, extension,
                    currentVersion, updatedVersion, zipFilename, valid,
                    existingVersions, manifestFile, manifestWrites,
                    extensionDocument, dist, tenant >>
    /\ UNCHANGED << jmxData, actionVars, scrapeVars, screenVars, alertVars >>

\* deleteVersion of the newest version returns
UaDeleteNewestReturns ==
    /\ bpc = "ua_deleteNewest"
    /\ \E deleted \in BOOLEAN :
          IF deleted
          THEN /\ deleting' = deleting \cup { existingVersions[Len(existingVersions)] }
               /\ StartUpload("ok")
          ELSE /\ FailBuild("failed")
               /\ UNCHANGED deleting
    /\ UNCHANGED << fastMode, dt, python, cancelRequested, extension,
                    currentVersion, updatedVersion, zipFilename, valid,
                    existingVersions, manifestFile, manifestWrites,
                    extensionDocument, dist, tenant >>
    /\ UNCHANGED << jmxData, actionVars, scrapeVars, screenVars, alertVars >>

\* upload returns, and the activation is requested whatever the upload said
UaUploadReturnsActivateAlways ==
    /\ bpc = "ua_upload"
    /\ IF Len(tenant) >= VersionLimit
       THEN /\ remoteCalls' = Answered("limit")
            /\ bpc' = "ua_sleep"
            /\ UNCHANGED << tenant, dist, statusBar, storage >>
       ELSE \E accepted \in BOOLEAN :
               IF accepted /\ ~Includes(tenant, updatedVersion)
               THEN /\ tenant' = Append(tenant, updatedVersion)
                    /\ remoteCalls' =
                          Append(Answered("ok"),
                                 Call("putEnvironmentConfiguration", updatedVersion))
                    /\ dist' = dist \cup { zipFilename }
                    /\ statusBar' = "success"
                    /\ RemoveFromStorage
                    /\ bpc' = "done"
               ELSE /\ remoteCalls' =
                          Append(Answered("failed"),
                                 Call("putEnvironmentConfiguration", updatedVersion))
                    /\ statusBar' = "failed"
                    /\ RemoveFromStorage
                    /\ bpc' = "done"
                    /\ UNCHANGED << tenant, dist >>
    /\ UNCHANGED uploads
    /\ UNCHANGED << fastMode, dt, python, cancelRequested, extension,
                    currentVersion, updatedVersion, zipFilename, valid,
                    existingVersions, manifestFile, manifestWrites,
                    extensionDocument, deleting >>
    /\ UNCHANGED << jmxData, actionVars, scrapeVars, screenVars, alertVars >>

\* upload returns: the tenant refuses while it holds VersionLimit versions and
\* refuses a version it already has; otherwise it accepts or reports an error.
\* After a success the activation is sent and the zip copied to dist.
UaUploadReturns ==
    /\ bpc = "ua_upload"
    /\ IF Len(tenant) >= VersionLimit
       THEN /\ remoteCalls' = Answered("limit")
            /\ bpc' = "ua_sleep"
            /\ UNCHANGED << tenant, dist, statusBar, storage >>
       ELSE \E accepted \in BOOLEAN :
               IF accepted /\ ~Includes(tenant, updatedVersion)
               THEN /\ tenant' = Append(tenant, updatedVersion)
                    /\ remoteCalls' =
                          Append(Answered("ok"),
                                 Call("putEnvironmentConfiguration", updatedVersion))
                    /\ dist' = dist \cup { zipFilename }
                    /\ statusBar' = "success"
                    /\ RemoveFromStorage
                    /\ bpc' = "done"
               ELSE /\ FailBuild("failed")
                    /\ UNCHANGED << tenant, dist >>
    /\ UNCHANGED uploads
    /\ UNCHANGED << fastMode, dt, python, cancelRequested, extension,
                    currentVersion, updatedVersion, zipFilename, valid,
                    existingVersions, manifestFile, manifestWrites,
                    extensionDocument, deleting >>
    /\ UNCHANGED << jmxData, actionVars, scrapeVars, screenVars, alertVars >>

\* the one second pause of the retry is over
UaSleepReturns ==
    /\ bpc = "ua_sleep"
    /\ StartUpload("limit")
    /\ UNCHANGED << fastMode, dt, python, cancelRequested, extension,
                    currentVersion, updatedVersion, zipFilename, valid,
                    existingVersions, manifestFile, manifestWrites,
                    extensionDocument, dist, tenant, deleting >>
    /\ UNCHANGED << jmxData, actionVars, scrapeVars, screenVars, alertVars >>

\* the user cancels the progress notification while the build waits
Cancel ==
    /\ bpc \in AwaitPoints
    /\ ~cancelRequested
    /\ cancelRequested' = TRUE
    /\ UNCHANGED << bpc, fastMode, dt, python, extension, currentVersion,
                    updatedVersion, zipFilename, valid, existingVersions,
                    uploads, statusBar, manifestFile, manifestWrites,
                    extensionDocument, storage, dist, tenant, deleting,
                    remoteCalls >>
    /\ UNCHANGED << jmxData, actionVars, scrapeVars, screenVars, alertVars >>

\* the tenant finishes a deletion it has accepted
TenantCompletesDeletion ==
    /\ deleting # { }
    /\ \E version \in deleting :
          /\ tenant' = SelectSeq(tenant, LAMBDA v : v # version)
          /\ deleting' = deleting \ { version }
    /\ UNCHANGED << bpc, fastMode, dt, python, cancelRequested, extension,
                    currentVersion, updatedVersion, zipFilename, valid,
                    existingVersions, uploads, statusBar, manifestFile,
                    manifestWrites, extensionDocument, storage, dist,
                    remoteCalls >>
    /\ UNCHANGED << jmxData, actionVars, scrapeVars, screenVars, alertVars >>

InitBuild ==
    /\ jmxData = NoCache
    /\ document = DocMiddle
    /\ range = 0
    /\ outcome = "idle"
    /\ codeActions = << >>
    /\ inserted = 0
    /\ ScrapeIdle
    /\ ScreenIdle
    /\ AlertIdle
    /\ bpc = "idle"
    /\ fastMode \in BOOLEAN
    /\ dt \in BOOLEAN
    /\ fastMode => dt
    /\ python \in BOOLEAN
    /\ cancelRequested = FALSE
    /\ extension = Manifest(NoVersion, "saved")
    /\ currentVersion = NoVersion
    /\ updatedVersion = NoVersion
    /\ zipFilename = NoVersion
    /\ valid = "unset"
    /\ existingVersions = << >>
    /\ uploads = 0
    /\ statusBar = "unset"
    /\ \E version \in ManifestVersions :
          /\ manifestFile = Manifest(version, "saved")
          /\ extensionDocument \in
                { [content |-> Manifest(version, "saved"), isDirty |-> FALSE],
                  [content |-> Manifest(version, "edited"), isDirty |-> TRUE],
                  [content |-> Manifest(EditedVersion, "edited"), isDirty |-> TRUE] }
          /\ tenant \in (IF dt THEN TenantLists(version) ELSE { << >> })
    /\ manifestWrites = 0
    /\ storage = FALSE
    /\ dist = { }
    /\ deleting = { }
    /\ remoteCalls = << >>

NextBuild ==
    \/ BuildCommand
    \/ SaveReturns
    \/ PreBuild
    \/ ListVersionsReturns
    \/ Assemble
    \/ PythonReturns
    \/ AfterAssembly
    \/ ValidateReturns
    \/ UaListReturns
    \/ UaDeleteOldestReturns
    \/ UaDeleteNewestReturns
    \/ UaUploadReturns
    \/ UaSleepReturns
    \/ Cancel
    \/ TenantCompletesDeletion

\* one build of the extension against a tenant
SpecBuild ==
    InitBuild /\ [][NextBuild]_vars

(***************************************************************************)
(* Claims about the build workflow                                         *)
(***************************************************************************)

\* the last call sent to the tenant was the given one and had the given result
LastCall(op, result) ==
    /\ remoteCalls # << >>
    /\ remoteCalls[Len(remoteCalls)].op = op
    /\ remoteCalls[Len(remoteCalls)].result = result

\* C18: once validateExtension has returned, its result is true exactly when
\* no API client is connected or the validate-only upload succeeded, the zip
\* is in dist exactly when the result is true, and the zip is gone from
\* workspace storage.
C18_Validation ==
    valid # "unset" =>
        /\ (valid = "valid") <=> (~dt \/ LastCall("validate", "ok"))
        /\ (zipFilename \in dist) <=> (valid = "valid")
        /\ ~storage

\* a validation the tenant refused
C18_Witness ==
    /\ valid = "invalid"
    /\ dt
    /\ LastCall("validate", "failed")
    /\ dist = { }
    /\ ~storage

\* pre-build has to increment: forced, or a client is connected and the list
\* it got from the tenant holds the current version
MustIncrement ==
    \/ fastMode
    \/ /\ dt
       /\ remoteCalls # << >>
       /\ remoteCalls[1].op = "listVersions"
       /\ remoteCalls[1].result = "ok"
       /\ Includes(tenant, currentVersion)

\* C19: when preBuildTasks has returned, the manifest was rewritten with
\* incrementExtensionVersion(currentVersion) exactly when the increment is
\* forced or the tenant's list holds the current version, and was not written
\* otherwise; the package file name carries the version the manifest has
\* after pre-build.
C19_PreBuildVersion ==
    /\ bpc = "assemble" =>
          IF MustIncrement
          THEN /\ manifestWrites = 1
               /\ manifestFile.version = incrementExtensionVersion(currentVersion)
               /\ updatedVersion = incrementExtensionVersion(currentVersion)
          ELSE /\ manifestWrites = 0
               /\ updatedVersion = currentVersion
    /\ zipFilename # NoVersion =>
          zipFilename = normalizeExtensionVersion(manifestFile.version)

\* the positions in the call history of the calls of one operation
CallsOf(op) ==
    { i \in 1..Len(remoteCalls) : remoteCalls[i].op = op }

\* C20: deleteVersion is issued only when the tenant listed VersionLimit or
\* more versions; the first deletion names the oldest listed version, and a
\* second one, naming the newest, is made only after the first failed; at
\* most one deletion succeeds; an upload is made only after a deletion
\* succeeded or when the list was below the limit; with both deletions failed
\* there is no upload and the status is failed.
C20_Eviction ==
    LET deletions == CallsOf("deleteVersion")
        uploaded  == CallsOf("upload")
        first     == CHOOSE i \in deletions : \A j \in deletions : i <= j
        second    == CHOOSE i \in deletions : i # first
        succeeded == { i \in deletions : remoteCalls[i].result = "ok" }
        failed    == { i \in deletions : remoteCalls[i].result = "failed" }
    IN  /\ deletions # { } => /\ Len(existingVersions) >= VersionLimit
                              /\ remoteCalls[first].version = existingVersions[1]
        /\ Cardinality(deletions) <= 2
        /\ Cardinality(deletions) = 2 =>
              /\ remoteCalls[first].result = "failed"
              /\ remoteCalls[second].version =
                    existingVersions[Len(existingVersions)]
        /\ Cardinality(succeeded) <= 1
        /\ Cardinality(deleting) <= 1
        /\ existingVersions # << >> => Len(tenant) >= Len(existingVersions) - 1
        /\ \A u \in uploaded :
              /\ \A d \in deletions : d < u
              /\ IF deletions = { }
                 THEN Len(existingVersions) < VersionLimit
                 ELSE succeeded # { }
        /\ Cardinality(failed) = 2 => /\ uploaded = { }
                                      /\ statusBar = "failed"

\* the oldest version could not be deleted, the newest could, and the package
\* was uploaded after that
C20_Witness ==
    LET deletions == CallsOf("deleteVersion")
    IN  /\ Cardinality(deletions) = 2
        /\ \E d \in deletions : remoteCalls[d].result = "ok"
        /\ \E d \in deletions : remoteCalls[d].result = "failed"
        /\ CallsOf("upload") # { }
        /\ statusBar = "success"

\* C22: whenever uploadAndActivate waits to retry an upload that was refused
\* for the version quantity limit, this run has issued a version deletion
\* before (so that the retries end once the tenant completes it).
C22_RetryAfterDeletion ==
    bpc = "ua_sleep" => CallsOf("deleteVersion") # { }

\* C23: putEnvironmentConfiguration is requested only directly after an upload
\* that returned success, with the version of the package just uploaded;
\* after an upload failure no activation is requested, the status bar says
\* failed and the zip is not in dist; the status bar says success only after
\* a successful upload.
C23_ActivateAfterUpload ==
    LET activations == CallsOf("putEnvironmentConfiguration")
        uploaded    == CallsOf("upload")
    IN  /\ \A a \in activations :
              /\ a > 1
              /\ remoteCalls[a - 1].op = "upload"
              /\ remoteCalls[a - 1].result = "ok"
              /\ remoteCalls[a].version = remoteCalls[a - 1].version
              /\ remoteCalls[a].version =
                    normalizeExtensionVersion(manifestFile.version)
        /\ \A u \in uploaded :
              remoteCalls[u].result = "failed" =>
                  /\ activations = { }
                  /\ statusBar = "failed"
                  /\ zipFilename \notin dist
        /\ statusBar = "success" =>
              \E u \in uploaded : remoteCalls[u].result = "ok"

\* an upload the tenant accepted, activated and copied to dist
C23_Witness ==
    /\ CallsOf("putEnvironmentConfiguration") # { }
    /\ statusBar = "success"
    /\ zipFilename \in dist
    /\ ~storage

\* the pre-build write keeps everything but the version line of the manifest
\* that is on disk
WriteKeepsContent ==
    manifestWrites' # manifestWrites => manifestFile'.body = manifestFile.body

\* C26: when pre-build increments the version, the manifest on disk afterwards
\* is the manifest that was on disk before (after an auto-save: the content
\* just saved) with only the version line changed.
C26_SavedEditsKept ==
    [][WriteKeepsContent]_vars

\* the calls that change something on the tenant
Mutations ==
    { "deleteVersion", "upload", "putEnvironmentConfiguration" }

\* C27: no deleteVersion, upload or putEnvironmentConfiguration is sent to the
\* tenant once the cancellation of the build has been requested.
C27_NoMutationAfterCancel ==
    \A i \in 1..Len(remoteCalls) :
        remoteCalls[i].op \in Mutations => ~remoteCalls[i].cancelled

(***************************************************************************)
(* Opening the screens of an entity type (ScreenLensProvider.openScreen)   *)
(***************************************************************************)

\* the openScreen commands of one behaviour
MaxScreens ==
    2

\* what getCurrentEnvironment() can resolve to: nothing, a classic tenant, or
\* a platform tenant, whose url contains ".apps"
Environments ==
    { NoEnvironment,
      [present |-> TRUE, apps |-> FALSE],
      [present |-> TRUE, apps |-> TRUE] }

\* the entity types of the screens in the manifest
EntityTypes ==
    { "jmx:host", "jmx:pool" }

ScreenTypes ==
    { "list", "details" }

\* lines 116-118: the tenant url, with the classic technologies app of a
\* platform tenant
baseUrl(tenantEnv) ==
    IF tenantEnv.apps
    THEN << "url", "/ui/apps/dynatrace.classic.technologies" >>
    ELSE << "url" >>

\* lines 136-138: the catch block
CouldNotOpen ==
    [level |-> "warn", text |-> "Could not open screen."]

\* line 131
NoEntities ==
    [level |-> "error",
     text |-> "No entities of this type were found in your tenant."]

\* every openScreen so far has ended with a page or with a message
ScreensDone ==
    Len(opened) + Len(messages)

\* the command dynatrace-extensions.openScreen is run from a code lens
OpenScreenCommand ==
    /\ spc \in { "idle", "done" }
    /\ ScreensDone < MaxScreens
    /\ \E entityType \in EntityTypes, screenType \in ScreenTypes :
          screenArgs' = [entityType |-> entityType, screenType |-> screenType]
    /\ spc' = "getCurrentEnvironment"
    /\ UNCHANGED << environment, opened, entityQueries, messages >>
    /\ UNCHANGED << jmxData, actionVars, scrapeVars, buildVars, alertVars >>

\* the catch block: whatever was thrown, a warning is shown
CatchOpenScreen ==
    /\ messages' = Append(messages, CouldNotOpen)
    /\ spc' = "done"

\* getCurrentEnvironment() settles: it resolves to the current environment,
\* to undefined when there is none, or (with an environment) is rejected.
\* The url of the result is read before the result is tested, which throws
\* when there is no environment.
EnvironmentReturns ==
    /\ spc = "getCurrentEnvironment"
    /\ \E resolved \in (IF environment.present THEN BOOLEAN ELSE { TRUE }) :
          IF ~resolved \/ ~environment.present
          THEN /\ CatchOpenScreen
               /\ UNCHANGED << opened, entityQueries >>
          ELSE IF screenArgs.screenType = "list"
          THEN /\ spc' = "openList"
               /\ UNCHANGED << opened, entityQueries, messages >>
          ELSE /\ entityQueries' = Append(entityQueries, screenArgs.entityType)
               /\ spc' = "listEntities"
               /\ UNCHANGED << opened, messages >>
    /\ UNCHANGED << environment, screenArgs >>
    /\ UNCHANGED << jmxData, actionVars, scrapeVars, buildVars, alertVars >>

\* openExternal of the list page settles
OpenListReturns ==
    /\ spc = "openList"
    /\ \E resolved \in BOOLEAN :
          IF resolved
          THEN /\ opened' = Append(opened,
                      [base |-> baseUrl(environment),
                       path |-> << "list", screenArgs.entityType >>])
               /\ spc' = "done"
               /\ UNCHANGED messages
          ELSE /\ CatchOpenScreen
               /\ UNCHANGED opened
    /\ UNCHANGED << environment, screenArgs, entityQueries >>
    /\ UNCHANGED << jmxData, actionVars, scrapeVars, buildVars, alertVars >>

\* entitiesV2.list settles: it fails, finds nothing, or finds entities
EntitiesReturn ==
    /\ spc = "listEntities"
    /\ \E result \in { "rejected", "none", "some" } :
          CASE result = "rejected" -> CatchOpenScreen
            [] result = "none" -> /\ messages' = Append(messages, NoEntities)
                                  /\ spc' = "done"
            [] result = "some" -> /\ spc' = "openDetails"
                                  /\ UNCHANGED messages
    /\ UNCHANGED << environment, screenArgs, opened, entityQueries >>
    /\ UNCHANGED << jmxData, actionVars, scrapeVars, buildVars, alertVars >>

\* openExternal of the page of the first entity settles
OpenDetailsReturns ==
    /\ spc = "openDetails"
    /\ \E resolved \in BOOLEAN :
          IF resolved
          THEN /\ opened' = Append(opened,
                      [base |-> baseUrl(environment),
                       path |-> << "entity", screenArgs.entityType >>])
               /\ spc' = "done"
               /\ UNCHANGED messages
          ELSE /\ CatchOpenScreen
               /\ UNCHANGED opened
    /\ UNCHANGED << environment, screenArgs, entityQueries >>
    /\ UNCHANGED << jmxData, actionVars, scrapeVars, buildVars, alertVars >>

InitScreen ==
    /\ jmxData = NoCache
    /\ document = DocMiddle
    /\ range = 0
    /\ outcome = "idle"
    /\ codeActions = << >>
    /\ inserted = 0
    /\ ScrapeIdle
    /\ BuildIdle
    /\ AlertIdle
    /\ spc = "idle"
    /\ environment \in Environments
    /\ screenArgs = NoArgs
    /\ opened = << >>
    /\ entityQueries = << >>
    /\ messages = << >>

NextScreen ==
    \/ OpenScreenCommand
    \/ EnvironmentReturns
    \/ OpenListReturns
    \/ EntitiesReturn
    \/ OpenDetailsReturns

\* openScreen commands run one after the other
SpecScreen ==
    InitScreen /\ [][NextScreen]_vars

\* C21: while the environments provider returns no current environment,
\* openScreen opens no page, sends no entity query and shows no message.
C21_NoEnvironmentNoEffect ==
    ~environment.present =>
        /\ opened = << >>
        /\ entityQueries = << >>
        /\ messages = << >>

(***************************************************************************)
(* Registering an alert in the manifest (createAlert)                      *)
(***************************************************************************)

\* the header of the alerts block
S_alerts ==
    << "a", "l", "e", "r", "t", "s", ":" >>

\* the entry of an alert file, up to the file name
S_pathAlerts ==
    << "p", "a", "t", "h", ":", " ", "a", "l", "e", "r", "t", "s", "/" >>

\* line 567: the block appended to a manifest without an alerts block
S_newBlock ==
    << "\n", "a", "l", "e", "r", "t", "s", ":", "\n", " ", "-", " " >>

\* what the user adds to the manifest and saves while createAlert asks
SavedNote ==
    << "#", " ", "n", "o", "t", "e", "\n" >>

\* manifests createAlert may find on disk:
\*   1. no alerts block
\*   2. a block with an item
\*   3. items at the margin, another block after them
\*   4. a comment with a dash in front of the items
\*   5. an empty block at the end
\*   6. the header as last line, without a line end
\*   7. an empty block followed by a list
AlertManifests ==
    { << "n", "a", "m", "e", ":", " ", "x", "\n" >>,
      << "n", "a", "m", "e", ":", " ", "x", "\n", "a", "l", "e", "r", "t",
         "s", ":", "\n", " ", " ", "-", " ", "p", "a", "t", "h", ":", " ",
         "a", "l", "e", "r", "t", "s", "/", "A", "\n" >>,
      << "a", "l", "e", "r", "t", "s", ":", "\n", "-", " ", "p", "a", "t",
         "h", ":", " ", "a", "l", "e", "r", "t", "s", "/", "A", "\n", "v",
         "a", "r", "s", ":", "\n" >>,
      << "a", "l", "e", "r", "t", "s", ":", "\n", " ", " ", "#", " ", "o",
         "n", "-", "c", "a", "l", "l", "\n", " ", " ", "-", " ", "p", "a",
         "t", "h", ":", " ", "a", "l", "e", "r", "t", "s", "/", "A", "\n" >>,
      << "n", "a", "m", "e", ":", " ", "x", "\n", "a", "l", "e", "r", "t",
         "s", ":", "\n" >>,
      << "n", "a", "m", "e", ":", " ", "x", "\n", "a", "l", "e", "r", "t",
         "s", ":" >>,
      << "a", "l", "e", "r", "t", "s", ":", "\n", "v", "a", "r", "s", ":",
         "\n", " ", " ", "-", " ", "i", "d", ":", " ", "v", "\n" >> }

\* what createUniqueFileName may return: the file names A and B
FileNames ==
    { << "A" >>, << "B" >> }
\* the createAlert commands of one behaviour
MaxAlerts ==
    2

\* lines 556 and 558: the length of "alerts:\n"
HeaderLen ==
    8

\* /^alerts:$/m matches at the character with index i (from 1)
headerAt(text, i) ==
    /\ i + Len(S_alerts) - 1 <= Len(text)
    /\ SubSeq(text, i, i + Len(S_alerts) - 1) = S_alerts
    /\ (i = 1 \/ text[i - 1] = "\n")
    /\ (i + Len(S_alerts) > Len(text) \/ text[i + Len(S_alerts)] = "\n")

\* extensionText.search(/^alerts:$/gm): the index (from 0) of the first match,
\* or -1
search(text) ==
    LET found == { i \in 1..Len(text) : headerAt(text, i) }
    IN  IF found = { } THEN -1
        ELSE (CHOOSE i \in found : \A j \in found : i <= j) - 1

\* String.prototype.indexOf for one character, from 0, or -1
indexOf(text, c) ==
    LET found == { i \in 1..Len(text) : text[i] = c }
    IN  IF found = { } THEN -1
        ELSE (CHOOSE i \in found : \A j \in found : i <= j) - 1

\* String.prototype.slice(start) and slice(0, end), indices from 0
sliceFrom(text, start) ==
    SubSeq(text, start + 1, Len(text))

\* the manifest entry of an alert file
entryOf(name) ==
    S_pathAlerts \o name

\* lines 552-568: updatedExtensionText, or the RangeError of " ".repeat with
\* a negative count
updatedText(text, name) ==
    LET alertsMatch == search(text)
        indent      == indexOf(sliceFrom(text, alertsMatch), "-") - HeaderLen
    IN  IF alertsMatch > -1
        THEN IF ~includes(text, entryOf(name))
             THEN IF indent < 0
                  THEN [threw |-> TRUE, text |-> text]
                  ELSE [threw |-> FALSE,
                        text |-> SubSeq(text, 1, alertsMatch) \o S_alerts
                                 \o << "\n" >> \o Rep(<< " " >>, indent)
                                 \o << "-", " " >> \o entryOf(name)
                                 \o << "\n" >>
                                 \o sliceFrom(text, alertsMatch + HeaderLen)]
             ELSE [threw |-> FALSE, text |-> text]
        ELSE [threw |-> FALSE,
              text |-> text \o S_newBlock \o entryOf(name) \o << "\n" >>]

\* the command is run: the manifest is read; without metrics in the manifest
\* the command ends with a warning
AlertCommand ==
    /\ apc \in { "idle", "done" }
    /\ alertsRun < MaxAlerts
    /\ alertsRun' = alertsRun + 1
    /\ extensionText' = manifestText
    /\ \E hasMetrics \in BOOLEAN :
          IF hasMetrics
          THEN /\ apc' = "prompts"
               /\ alertResult' = "none"
          ELSE /\ apc' = "done"
               /\ alertResult' = "cancelled"
    /\ UNCHANGED << manifestText, fileName, alertFiles, overwritten >>
    /\ UNCHANGED << jmxData, actionVars, scrapeVars, buildVars, screenVars >>

\* while the command waits for an answer the user saves the manifest with a
\* change
ManifestSaved ==
    /\ apc = "prompts"
    /\ manifestText = extensionText
    /\ manifestText' = manifestText \o SavedNote
    /\ UNCHANGED << apc, alertsRun, extensionText, fileName, alertFiles,
                    alertResult, overwritten >>
    /\ UNCHANGED << jmxData, actionVars, scrapeVars, buildVars, screenVars >>

\* the prompts are answered: a cancelled prompt ends the command; otherwise
\* the alert file is written and the manifest is rewritten from the text
\* that was read when the command started
PromptsAnswered ==
    /\ apc = "prompts"
    /\ apc' = "done"
    /\ \E answered \in BOOLEAN, name \in FileNames :
          IF ~answered
          THEN /\ alertResult' = "cancelled"
               /\ UNCHANGED << manifestText, fileName, alertFiles, overwritten >>
          ELSE /\ fileName' = name
               /\ alertFiles' = alertFiles \cup { name }
               /\ overwritten' = manifestText
               /\ IF updatedText(extensionText, name).threw
                  THEN /\ alertResult' = "threw"
                       /\ UNCHANGED manifestText
                  ELSE /\ alertResult' = "written"
                       /\ manifestText' = updatedText(extensionText, name).text
    /\ UNCHANGED << alertsRun, extensionText >>
    /\ UNCHANGED << jmxData, actionVars, scrapeVars, buildVars, screenVars >>

InitAlert ==
    /\ jmxData = NoCache
    /\ document = DocMiddle
    /\ range = 0
    /\ outcome = "idle"
    /\ codeActions = << >>
    /\ inserted = 0
    /\ ScrapeIdle
    /\ BuildIdle
    /\ ScreenIdle
    /\ apc = "idle"
    /\ alertsRun = 0
    /\ manifestText \in AlertManifests
    /\ extensionText = << >>
    /\ fileName = << >>
    /\ alertFiles = { }
    /\ alertResult = "none"
    /\ overwritten = << >>

NextAlert ==
    \/ AlertCommand
    \/ ManifestSaved
    \/ PromptsAnswered

\* createAlert commands run one after the other on one manifest
SpecAlert ==
    InitAlert /\ [][NextAlert]_vars

(***************************************************************************)
(* Claims about createAlert                                                *)
(***************************************************************************)

\* the first character after position i (from 1) that ends a line, or the
\* position after the text
RECURSIVE LineEnd(_, _)
LineEnd(text, i) ==
    IF i > Len(text) \/ text[i] = "\n" THEN i ELSE LineEnd(text, i + 1)

\* the number of spaces from position i on
RECURSIVE Leading(_, _)
Leading(text, i) ==
    IF i <= Len(text) /\ text[i] = " " THEN 1 + Leading(text, i + 1) ELSE 0

\* the indentation of the first list item of the block whose lines start at
\* position i, or -1 when the block has no item: blank, comment and nested
\* lines are passed over, a root-level key ends the block
RECURSIVE ItemIndent(_, _)
ItemIndent(text, i) ==
    IF i > Len(text) THEN -1
    ELSE LET k    == Leading(text, i)
             at   == i + k
             next == LineEnd(text, i) + 1
         IN  IF at <= Len(text) /\ text[at] = "-" THEN k
             ELSE IF at > Len(text) \/ text[at] \in { "\n", "#" } \/ k > 0
                  THEN ItemIndent(text, next)
                  ELSE -1

\* the manifest old with the entry of the file put directly after the alerts
\* header that starts at position h (from 1), at indentation k
EntryAfterHeader(old, h, k, name) ==
    LET headerEnd == h + Len(S_alerts) - 1
    IN  SubSeq(old, 1, headerEnd) \o << "\n" >> \o Rep(<< " " >>, k)
        \o << "-", " " >> \o entryOf(name) \o << "\n" >>
        \o SubSeq(old, headerEnd + 2, Len(old))

\* how often the entry of the file occurs in the text
Occurrences(text, name) ==
    Cardinality({ i \in 1..Len(text) :
                    /\ i + Len(entryOf(name)) - 1 <= Len(text)
                    /\ SubSeq(text, i, i + Len(entryOf(name)) - 1) = entryOf(name) })

\* new is old with the alert file registered as described
Registered(old, new, name) ==
    LET h     == search(old) + 1
        items == ItemIndent(old, LineEnd(old, h) + 1)
    IN  /\ Occurrences(new, name) = 1
        /\ IF includes(old, entryOf(name)) THEN new = old
           ELSE IF h > 0
           THEN \E k \in (IF items >= 0 THEN { items } ELSE 0..Len(old)) :
                   new = EntryAfterHeader(old, h, k, name)
           ELSE \E k \in 0..Len(old) :
                   new = old \o << "\n" >> \o S_alerts \o << "\n" >>
                         \o Rep(<< " " >>, k) \o << "-", " " >>
                         \o entryOf(name) \o << "\n" >>

\* C25: when createAlert has got its answers it completes, and the manifest
\* then is the manifest it found with the entry of the alert file exactly
\* once: unchanged when the entry was there, else with the entry directly
\* after the alerts header at the indentation of the existing list items, or
\* with a new alerts block at the end; all other text is as it was.
C25_AlertRegistered ==
    (apc = "done" /\ alertResult # "cancelled") =>
        /\ alertResult = "written"
        /\ Registered(overwritten, manifestText, fileName)
====
